---------------------------- MODULE Spec2Model ----------------------------
(***************************************************************************)
(* A model of the content pipeline of the AI answer engine: the rate       *)
(* limiting middleware (two revisions), the two crawlers, and the content  *)
(* cache with the orchestrator's extractContent.                           *)
(***************************************************************************)
EXTENDS Integers, Sequences, FiniteSets, TLC

(***************************************************************************)
(* Bounds of the model.                                                    *)
(***************************************************************************)
NumProcs == 3         \* middleware invocations that may be in flight at once
MaxFaults == 2        \* store calls that may fail in one behaviour
NumFaultyProcs == 2   \* invocations in flight at once while store calls fail

NumUrls == 12         \* URLs of the crawled site, 0 is the seed
MaxStride == 3        \* link graphs: distance between a page and its first link
MaxSpread == 3        \* link graphs: factor between a page and its links
MaxFan == 5           \* link graphs: forward links per page
MaxFetchFail == 2     \* page fetches that may fail in one crawl
MaxUrlsPerReq == 2    \* URLs submitted with one chat request
MaxCrawlFetches == 2  \* pages an article extraction fetches from a reachable site
NumReqs == 2          \* chat requests one server process handles at a time
MaxRaceUrls == 1      \* URLs per request when requests run concurrently
MaxRows == 12         \* lines of one kind after the header of a chart input
MaxTail == 2          \* lines of a second kind after those
NumShares == 2        \* share ids that Math.random may produce
MaxText == 5          \* characters of a text given to truncateText
MaxSends == 3         \* messages the user sends from the chat page

Procs == 1..NumProcs
Ips == {1, 2}
OneClient == {1}
Paths == {"chat", "other"}
Revisions == {"part_002", "part_003"}

(***************************************************************************)
(* Program constants of the middleware.                                    *)
(***************************************************************************)
RATE_LIMIT_REQUESTS == 50
RATE_LIMIT_WINDOW == 60 * 60

(***************************************************************************)
(* Program constants of WebCrawler.                                        *)
(***************************************************************************)
MAX_DEPTH == 2
MAX_PAGES == 10

NoTtl == 0 - 1
TickSeconds == RATE_LIMIT_WINDOW \div 2

VARIABLES
    revision,       \* which revision of middleware.ts is deployed
    configured,     \* UPSTASH_REDIS_REST_URL and _TOKEN are both set
    count,          \* store: value of ratelimit:<ip>, 0 when the key is absent
    ttl,            \* store: seconds the key has left, NoTtl when it has no expiry
    pc,             \* position of each middleware invocation
    path,           \* request.nextUrl.pathname of the invocation
    ip,             \* client identity of the invocation
    currentCount,   \* the invocation's local currentCount
    response,       \* "none", "next" (NextResponse.next()) or "429"
    failed,         \* history: a store call of this invocation failed
    countAfter,     \* history: the key's value after the invocation's last call
    admitted,       \* history: requests admitted per key since it was created
    everDenied,     \* history: the client has been answered 429
    faults          \* history: number of failed store calls

rlVars == <<revision, configured, count, ttl, pc, path, ip, currentCount,
            response, failed, countAfter, admitted, everDenied, faults>>

VARIABLES
    crawler,        \* "WebCrawler" or "crawlHierarchically"
    site,           \* the link graph of the crawled site
    config,         \* CrawlerConfig: maxDepth, maxPages
    cpc,            \* position of the crawl
    visited,        \* Set<string> visited
    queue,          \* WebCrawler.queue: tasks {url, depth}
    results,        \* pages produced, in order, each with the depth it was reached at
    current,        \* the task {url, depth} being processed
    callStack,      \* crawlHierarchically: suspended crawl() frames
    fetchLog,       \* history: the tasks whose page was requested, in order
    fetchFails,     \* history: number of fetches that failed
    failedUrls      \* history: the urls whose fetch threw or was not ok

crawlVars == <<crawler, site, config, cpc, visited, queue, results, current,
               callStack, fetchLog, fetchFails,
                   failedUrls>>

VARIABLES
    routeRev,       \* which revision of api/chat/route.ts is deployed
    redis,          \* route.ts: the store client was constructed (not null)
    autoDeserialize,\* the store client parses JSON values it reads
    cache,          \* store: the string under content:<url>, or no entry
    cacheTtl,       \* store: seconds the entry has left
    epc,            \* position of extractContent
    eurl,           \* its url
    cachedContent,  \* its local cachedContent
    result,         \* its local result
    returned,       \* the value extractContent returned
    readSaw,        \* history: the store entry at the time of its cache read
    extractorCalls, \* history: extractor invocations of this call
    cacheWrites,    \* history: the store writes of this call: entry and TTL
    storeUp,        \* the store answers; when not, redis.get / redis.set reject
    faulted         \* history: a store command of this call was rejected

VARIABLES
    world,          \* what a fetch of each URL meets: the outcome
    oPc,            \* per request: position of POST / processUrls
    oUrls,          \* per request: the submitted urls
    oIdx,           \* per request: index of the loop's current url
    oPhase,         \* per request and index: how far extractContent(url) is
    oRes,           \* per request and index: the result extractContent returned
    oFetches,       \* per request: page fetches finished in the running extraction
    inFlight,       \* per request: outbound fetches awaiting their response
    context,        \* per request: the contents appended to context, in order
    validSources,   \* per request: validSources
    visualizations, \* per request: visualizations
    oLog            \* history, per request: <<index, step>> in the order taken

orchVars == <<world, oPc, oUrls, oIdx, oPhase, oRes, oFetches, inFlight,
              context, validSources, visualizations, oLog>>

cacheVars == <<routeRev, redis, autoDeserialize, cache, cacheTtl, epc, eurl,
               cachedContent, result, returned, readSaw, extractorCalls,
               cacheWrites, storeUp, faulted>>

VARIABLES
    dImpl,          \* which chart producer runs
    dLines,         \* its input text: the lines, each the cells of the line
    dpc,            \* "input" before it ran, "detected" after
    dChart,         \* the chart specification it produced, or none
    dCount          \* the record count its content states, or none

chartVars == <<dImpl, dLines, dpc, dChart, dCount>>

VARIABLES
    xImpl,          \* which revision's extractContent runs
    xUrl,           \* its url: host, text, ending
    xKey,           \* process.env.YOUTUBE_API_KEY is set
    xApi,           \* what the metadata API answers
    xPage,          \* what a fetch of the url itself answers
    xpc,            \* "input", "dispatched", "done"
    xCalled,        \* history: the extractors invoked, in order
    xFetched,       \* history: the fetches the video extractor issued
    xResult         \* what the extractor returned

dispatchVars == <<xImpl, xUrl, xKey, xApi, xPage, xpc, xCalled, xFetched,
                  xResult>>

VARIABLES
    hPc,            \* per invocation slot: where POST of /api/chat stands
    hWork           \* per invocation slot: what POST has done, in order

gateVars == <<hPc, hWork>>

VARIABLES
    shStore,        \* the store's share:<id> entries
    shTtl,          \* their remaining time to live, seconds
    shAge,          \* seconds since the POST that wrote the entry
    shPosted,       \* history: the conversation last posted under the id
    shResp          \* the last response of GET /api/share, with the age
                    \* and the posted conversation of its id at that time

shareVars == <<shStore, shTtl, shAge, shPosted, shResp>>

VARIABLES
    tText,          \* the text given to truncateText
    tMax,           \* its maxLength
    tpc,            \* "input", "once", "twice"
    tOut,           \* truncateText(text, max)
    tAgain          \* truncateText of that, same max

truncVars == <<tText, tMax, tpc, tOut, tAgain>>

VARIABLES
    pMessage,       \* chat page: the textarea's value (0: empty)
    pIsLoading,     \* isLoading
    pConv,          \* currentConversation.messages
    pInFlight,      \* the handleSend calls awaiting their response
    pSent,          \* history: messages sent so far
    pAnswered       \* history: messages whose response arrived ok

pageVars == <<pMessage, pIsLoading, pConv, pInFlight, pSent, pAnswered>>

auxVars == <<dispatchVars, gateVars, shareVars, truncVars, pageVars>>

vars == <<rlVars, crawlVars, cacheVars, orchVars, chartVars, auxVars>>

notRate == <<crawlVars, cacheVars, orchVars, chartVars, auxVars>>
notCrawl == <<rlVars, cacheVars, orchVars, chartVars, auxVars>>
notCache == <<rlVars, crawlVars, orchVars, chartVars, auxVars>>
notChart == <<rlVars, crawlVars, cacheVars, orchVars, auxVars>>
mainVars == <<rlVars, crawlVars, cacheVars, orchVars, chartVars>>

Urls == 0..(NumUrls - 1)
Seed == 0
NoTask == [url |-> 0 - 1, depth |-> 0]

(***************************************************************************)
(* The links of page u, in document order.  A site <<a, k, m, back>>: page *)
(* u links to a*u + k, a*u + 2k, .. a*u + mk (modulo the number of URLs)   *)
(* and, if back, also to itself, to the seed and once more to its first    *)
(* link.  a = 1 gives overlapping neighbourhoods, larger a gives trees.    *)
(***************************************************************************)
Sites == (1..MaxSpread) \X (1..MaxStride) \X (0..MaxFan) \X BOOLEAN

Fan(g) == g[3]
Back(g) == g[4]

SiteLinks(g, u) ==
    [j \in 1..Fan(g) |-> (g[1] * u + j * g[2]) % NumUrls]
      \o (IF Back(g) THEN <<u, Seed, (g[1] * u + g[2]) % NumUrls>> ELSE <<>>)

(***************************************************************************)
(* What a URL is made of as far as the filters of crawl() look at it: the  *)
(* hostname, and the ending of the whole URL text.  The seed is a page of  *)
(* its own host.                                                           *)
(***************************************************************************)
UrlHost(u) == IF u % 5 = 4 THEN "elsewhere" ELSE "seed host"

UrlEnding(u) ==
    CASE u % 6 = 2 -> "pdf"
      [] u % 6 = 3 -> "JPG"
      [] u % 6 = 5 -> "pdf?page=1"
      [] OTHER -> "html"

\* config.allowedDomains.includes(new URL(fullUrl).hostname)
AllowedDomain(u) == UrlHost(u) = UrlHost(Seed)

\* /\.(jpg|jpeg|png|gif|pdf|zip|exe)$/i .test(fullUrl)
MatchesExclude(u) == UrlEnding(u) \in {"pdf", "JPG"}

FollowAll(cfg, u) == TRUE

Follows(cfg, u) ==
    cfg.filters = "article" => AllowedDomain(u) /\ ~MatchesExclude(u)

(***************************************************************************)
(* The configurations crawlHierarchically is given: its default and the    *)
(* one of extractArticle, and the smallest ones.                           *)
(***************************************************************************)
Configs ==
    { [maxDepth |-> 2, maxPages |-> 10, filters |-> "none"],
      [maxDepth |-> 1, maxPages |-> 5, filters |-> "article"],
      [maxDepth |-> 0, maxPages |-> 1, filters |-> "none"],
      [maxDepth |-> 2, maxPages |-> 1, filters |-> "none"],
      [maxDepth |-> 1, maxPages |-> 0, filters |-> "none"] }

CrawlIdle ==
    /\ crawler = "WebCrawler"
    /\ site = <<1, 1, 0, FALSE>>
    /\ config = [maxDepth |-> MAX_DEPTH, maxPages |-> MAX_PAGES,
                      filters |-> "none"]
    /\ cpc = "done"
    /\ visited = {}
    /\ queue = <<>>
    /\ results = <<>>
    /\ current = NoTask
    /\ callStack = <<>>
    /\ fetchLog = <<>>
    /\ fetchFails = 0
    /\ failedUrls = {}

(***************************************************************************)
(* The content cache and the orchestrator's extractContent.                *)
(*                                                                         *)
(* Content strings are told apart by what the code does with them: "text"  *)
(* is extracted text, "failed" a failure message, "" the empty string,     *)
(* "json" the JSON text extractCSV returns, "cutjson" that text cut by     *)
(* truncateText to MAX_CONTENT_LENGTH (no longer JSON).                    *)
(***************************************************************************)
CACHE_TTL == 60 * 60 * 24
CacheTickSeconds == CACHE_TTL \div 2

CacheUrls == {"https://site/page", "https://site/data.csv",
              "https://site/paper.pdf"}

FileType(u) ==
    CASE u = "https://site/data.csv" -> "csv"
      [] u = "https://site/paper.pdf" -> "pdf"
      [] OTHER -> "site/page"

(***************************************************************************)
(* What a fetch of a URL meets: a page that answers ("ok"), one whose      *)
(* extraction is longer than MAX_CONTENT_LENGTH ("long"), no answer at all *)
(* ("unreachable": fetch rejects), or a url that new URL() / fetch refuse  *)
(* ("invalid").                                                            *)
(***************************************************************************)
FetchOutcomes == {"ok", "long", "unreachable", "invalid"}

(***************************************************************************)
(* Content strings: "text" readable text; "" the empty string; "failed" a  *)
(* failure message that names the url; "failedNoUrl" a failure message     *)
(* that does not; "json" / "longjson" the JSON of {content,                *)
(* visualizationData}; "cutjson" that JSON cut by truncateText; "summary"  *)
(* the content field inside that JSON.                                     *)
(***************************************************************************)
Contents == {"text", "", "failed", "json", "cutjson", "summary"}

\* crawlHierarchically catches the failed fetch of a page and goes on, so
\* an unreachable start url leaves no crawled page: [].map(..).join() = ''
ExtractArticle(o) ==
    CASE o = "invalid" -> "failed"
      [] o = "unreachable" -> ""
      [] OTHER -> "text"

ExtractPDF(o) ==
    IF o \in {"unreachable", "invalid"} THEN "failed" ELSE "text"

ExtractCSV(o) ==
    CASE o \in {"unreachable", "invalid"} -> "failed"
      [] o = "long" -> "longjson"
      [] OTHER -> "json"

\* the catch of extractVideoContent reports error.message only
ExtractVideoContent(o) ==
    IF o \in {"unreachable", "invalid"} THEN "failedNoUrl" ELSE "summary"

\* truncateText(content, MAX_CONTENT_LENGTH) of route.ts
TruncateText(c) == IF c = "longjson" THEN "cutjson" ELSE c

Extractor(kind, o) ==
    CASE kind = "csv" -> ExtractCSV(o)
      [] kind = "pdf" -> ExtractPDF(o)
      [] OTHER -> ExtractArticle(o)

ExtractorOutputs(u) ==
    {TruncateText(Extractor(FileType(u), o)) : o \in FetchOutcomes}

(***************************************************************************)
(* Values: a ContentResult {content, visualizationData}; null; the string  *)
(* or object the store client hands back; the store's entry.               *)
(***************************************************************************)
ContentResult(c, v) == [is |-> "result", content |-> c, viz |-> v]
Null == [is |-> "null", content |-> "", viz |-> "none"]
NoEntry == [is |-> "absent", content |-> "", viz |-> "none"]

\* truncateContent(result.content) of extractors.ts
TruncateContent(c) == IF c = "longjson" THEN "cutjson" ELSE c

\* extractContent of lib/extractors.ts, by the kind of url
LibExtractContent(kind, o) ==
    CASE kind = "video" ->
            ContentResult(TruncateContent(ExtractVideoContent(o)),
                          IF ExtractVideoContent(o) = "summary" THEN "bar"
                          ELSE "none")
      [] kind = "pdf" -> ContentResult(TruncateContent(ExtractPDF(o)), "none")
      [] kind = "csv" -> ContentResult(TruncateContent(ExtractCSV(o)), "none")
      [] OTHER -> ContentResult(TruncateContent(ExtractArticle(o)), "none")

\* the rejection of a store command
StoreError == [is |-> "error", content |-> "", viz |-> "none"]

\* JSON.stringify(result): a string, valid JSON
Stringify(r) == [is |-> "jsonstring", content |-> r.content, viz |-> r.viz]
\* a content string as it is
PlainString(c) == [is |-> "string", content |-> c, viz |-> "none"]

IsString(d) == d.is \in {"jsonstring", "string"}
IsValidJson(d) ==
    d.is = "jsonstring" \/ (d.is = "string" /\ d.content = "json")

\* JSON.parse of a string that is valid JSON
JsonParse(d) ==
    IF d.is = "jsonstring" THEN ContentResult(d.content, d.viz)
    ELSE ContentResult("summary", "bar")

\* redis.get: the entry, parsed if the client deserializes and it is JSON
ClientGet(entry) ==
    IF entry = NoEntry THEN Null
    ELSE IF autoDeserialize /\ IsValidJson(entry)
         THEN [JsonParse(entry) EXCEPT !.is = "object"]
         ELSE entry

Falsy(d) == d = Null \/ (d.is = "string" /\ d.content = "")

(***************************************************************************)
(* route.ts getCachedContent, given what redis.get resolved to.            *)
(***************************************************************************)
GetCachedContent(cachedData) ==
    IF Falsy(cachedData) THEN Null
    ELSE IF IsString(cachedData)
         THEN IF IsValidJson(cachedData) THEN JsonParse(cachedData)
              ELSE ContentResult(cachedData.content, "none")
         ELSE Null

\* the catch of getCachedContent: console.error, return null
Rethrow == StoreError
CatchRead == Null

InitCache ==
    /\ routeRev \in {"route_1", "route_2"}
    /\ redis \in BOOLEAN
    /\ routeRev = "route_1" => redis
    /\ autoDeserialize \in BOOLEAN
    /\ cache = [u \in CacheUrls |-> NoEntry]
    /\ cacheTtl = [u \in CacheUrls |-> NoTtl]
    /\ epc = "idle"
    /\ eurl = "https://site/page"
    /\ cachedContent = Null
    /\ result = Null
    /\ returned = Null
    /\ readSaw = NoEntry
    /\ extractorCalls = 0
    /\ cacheWrites = <<>>
    /\ storeUp = TRUE
    /\ faulted = FALSE

CacheIdle ==
    InitCache /\ routeRev = "route_2" /\ redis /\ ~autoDeserialize

(***************************************************************************)
(* Chart producers.  A text is its lines; a line is its cells after the    *)
(* split on the delimiter: "n" a number, "s" other text, "date" a header   *)
(* name containing 'date'; the blank line has no cell.                     *)
(***************************************************************************)
Detectors == {"route.ts", "extractors.ts", "utils.ts", "part_003"}
Pipelines == {"extractCSV", "route_1.extractContent",
              "route_2.extractContent", "extractors.extractContent"}
Producers == Detectors \cup Pipelines

HeaderKinds == {<<"s">>, <<"s", "s">>, <<"date", "s">>, <<"s", "s", "s">>}
LineKinds == {<<>>, <<"n">>, <<"n", "n">>, <<"s", "s">>, <<"n", "s">>,
              <<"s", "n">>, <<"n", "n", "n">>}

Rep(l, k) == [j \in 1..k |-> l]

Texts ==
    {<<>>} \cup
    {<<h>> \o Rep(a, k) \o Rep(b, m) :
        h \in HeaderKinds, a \in LineKinds, b \in LineKinds,
        k \in 0..MaxRows, m \in 0..MaxTail}

NoCount == 0 - 1
NoChart == [kind |-> "none", rows |-> <<>>]
Chart(k, data) == [kind |-> k, rows |-> data]

(***************************************************************************)
(* URLs for the dispatch of extractContent: whether the host is a video    *)
(* platform (youtube.com, youtu.be), whether the text carries              *)
(* 'youtube.com' elsewhere (path or query), whether it holds an 11         *)
(* character video id, and its ending after the last dot.                  *)
(***************************************************************************)
Endings == {"pdf", "csv", "PDF", "html"}
DispatchUrls ==
    {u \in [host : {"video", "other"}, mention : BOOLEAN, vid : BOOLEAN,
            ending : Endings] :
        u.vid => u.host = "video" \/ u.mention}
ExtractContents == {"extractors.ts", "part_004", "route_1", "route_2"}
ApiAnswers == {"ok", "empty", "fail"}
PageAnswers == {"ok", "unreachable"}

DispatchIdle ==
    /\ xImpl = "extractors.ts"
    /\ xUrl = [host |-> "other", mention |-> FALSE, vid |-> FALSE,
               ending |-> "html"]
    /\ xKey = TRUE
    /\ xApi = "ok"
    /\ xPage = "ok"
    /\ xpc = "done"
    /\ xCalled = <<>>
    /\ xFetched = <<>>
    /\ xResult = "none"

GateIdle ==
    /\ hPc = [p \in Procs |-> "none"]
    /\ hWork = [p \in Procs |-> <<>>]

(***************************************************************************)
(* /api/share: ids, conversations, and the program constant SHARE_TTL.     *)
(***************************************************************************)
SHARE_TTL == 60 * 60 * 24 * 7
ShareTickSeconds == 60 * 60 * 12
ShareIds == 1..NumShares
Conversations == {"conversation A", "conversation B"}
NoShare == "absent"
NoResponse ==
    [id |-> 0, status |-> 0, body |-> "none", age |-> 0 - 1,
     posted |-> "none"]

ShareIdle ==
    /\ shStore = [i \in ShareIds |-> NoShare]
    /\ shTtl = [i \in ShareIds |-> NoTtl]
    /\ shAge = [i \in ShareIds |-> 0 - 1]
    /\ shPosted = [i \in ShareIds |-> "none"]
    /\ shResp = NoResponse

(***************************************************************************)
(* Texts for truncateText: strings over a letter and the period.           *)
(***************************************************************************)
Chars == {"a", "."}
TextsUpTo(n) == UNION {[1..k -> Chars] : k \in 0..n}

TruncIdle ==
    /\ tText = <<>>
    /\ tMax = 0
    /\ tpc = "twice"
    /\ tOut = <<>>
    /\ tAgain = <<>>

(***************************************************************************)
(* The chat page: messages are numbered as the user sends them; the first  *)
(* message of a conversation is the AI's greeting.                         *)
(***************************************************************************)
Greeting == [role |-> "ai", msg |-> 0]
UserMessage(m) == [role |-> "user", msg |-> m]
AiMessage(m) == [role |-> "ai", msg |-> m]

PageInit ==
    /\ pMessage = 0
    /\ pIsLoading = FALSE
    /\ pConv = <<Greeting>>
    /\ pInFlight = {}
    /\ pSent = 0
    /\ pAnswered = {}

AuxIdle == DispatchIdle /\ GateIdle /\ ShareIdle /\ TruncIdle /\ PageInit

ChartIdle ==
    /\ dImpl = "route.ts"
    /\ dLines = <<>>
    /\ dpc = "detected"
    /\ dChart = NoChart
    /\ dCount = NoCount

(***************************************************************************)
(* The chat requests one server process handles at a time, and the url     *)
(* lists they may submit.                                                  *)
(***************************************************************************)
Reqs == 1..NumReqs
Slots == 1..MaxUrlsPerReq
OrchUrls == {"https://site/page", "https://site/data.csv"}
UrlLists == UNION {[1..n -> OrchUrls] : n \in 0..MaxUrlsPerReq}
RaceLists == {l \in UrlLists : Len(l) <= MaxRaceUrls}

OutcomesFor(u) ==
    CASE FileType(u) = "csv" -> {"ok", "long", "unreachable"}
      [] FileType(u) = "pdf" -> {"ok", "unreachable"}
      [] OTHER -> {"ok", "unreachable"}

Worlds == {w \in [CacheUrls -> FetchOutcomes] :
              /\ \A u \in OrchUrls : w[u] \in OutcomesFor(u)
              /\ \A u \in CacheUrls \ OrchUrls : w[u] = "ok"}

OrchRequestsIdle ==
    /\ oPc = [r \in Reqs |-> "idle"]
    /\ oUrls = [r \in Reqs |-> <<>>]
    /\ oIdx = [r \in Reqs |-> 1]
    /\ oPhase = [r \in Reqs |-> [i \in Slots |-> "new"]]
    /\ oRes = [r \in Reqs |-> [i \in Slots |-> Null]]
    /\ oFetches = [r \in Reqs |-> 0]
    /\ inFlight = [r \in Reqs |-> 0]
    /\ context = [r \in Reqs |-> <<>>]
    /\ validSources = [r \in Reqs |-> <<>>]
    /\ visualizations = [r \in Reqs |-> <<>>]
    /\ oLog = [r \in Reqs |-> <<>>]

OrchIdle ==
    /\ world = [u \in CacheUrls |-> "ok"]
    /\ OrchRequestsIdle
    /\ ChartIdle
    /\ AuxIdle

RequestInit ==
    /\ revision \in Revisions
    /\ configured \in BOOLEAN
    /\ pc = [p \in Procs |-> "idle"]
    /\ path = [p \in Procs |-> "chat"]
    /\ ip = [p \in Procs |-> 1]
    /\ currentCount = [p \in Procs |-> 0]
    /\ response = [p \in Procs |-> "none"]
    /\ failed = [p \in Procs |-> FALSE]
    /\ countAfter = [p \in Procs |-> 0]
    /\ everDenied = [c \in Ips |-> FALSE]
    /\ faults = 0

RateInit ==
    /\ RequestInit
    /\ count = [c \in Ips |-> 0]
    /\ ttl = [c \in Ips |-> NoTtl]
    /\ admitted = [c \in Ips |-> 0]

(***************************************************************************)
(* ratelimitKey = `ratelimit:${ip}`: the record a request reads and        *)
(* writes.                                                                 *)
(***************************************************************************)
OneKeyForAll(c) == 1

RatelimitKey(c) == c

(***************************************************************************)
(* The headers of a response: Retry-After on the 429, X-RateLimit-Limit    *)
(* and X-RateLimit-Remaining on a counted next().                          *)
(***************************************************************************)
ResponseHeaders(r, cnt) ==
    IF r = "429"
    THEN [RetryAfter |-> RATE_LIMIT_WINDOW]
    ELSE [Limit |-> RATE_LIMIT_REQUESTS,
          Remaining |-> RATE_LIMIT_REQUESTS - cnt - 1]

(***************************************************************************)
(* currentCount >= RATE_LIMIT_REQUESTS, the deny test.                     *)
(***************************************************************************)
DeniedStrict(cnt) == cnt > RATE_LIMIT_REQUESTS

Denied(cnt) == cnt >= RATE_LIMIT_REQUESTS

(***************************************************************************)
(* The invocation returns: response r, the key's value recorded.           *)
(***************************************************************************)
Return(p, r, cnt) ==
    /\ pc' = [pc EXCEPT ![p] = "done"]
    /\ response' = [response EXCEPT ![p] = r]
    /\ countAfter' = [countAfter EXCEPT ![p] = cnt[RatelimitKey(ip[p])]]
    /\ everDenied' = IF r = "429" THEN [everDenied EXCEPT ![ip[p]] = TRUE]
                     ELSE everDenied

(***************************************************************************)
(* middleware: entry.  Other paths and an unconfigured store pass through. *)
(***************************************************************************)
Start(p, c, pth) ==
    /\ UNCHANGED notRate
    /\ pc[p] = "idle"
    /\ path' = [path EXCEPT ![p] = pth]
    /\ ip' = [ip EXCEPT ![p] = c]
    /\ IF pth # "chat" \/ ~configured
       THEN /\ pc' = [pc EXCEPT ![p] = "done"]
            /\ response' = [response EXCEPT ![p] = "next"]
            /\ countAfter' = [countAfter EXCEPT ![p] = count[c]]
       ELSE /\ pc' = [pc EXCEPT ![p] = "get"]
            /\ UNCHANGED <<response, countAfter>>
    /\ UNCHANGED <<revision, configured, count, ttl, currentCount, failed,
                   admitted, everDenied, faults>>

(***************************************************************************)
(* GET ratelimit:<ip> answered: parse, then the deny test.                 *)
(***************************************************************************)
GetOk(p) ==
    /\ UNCHANGED notRate
    /\ pc[p] = "get"
    /\ currentCount' = [currentCount EXCEPT ![p] = count[RatelimitKey(ip[p])]]
    /\ IF Denied(count[RatelimitKey(ip[p])])
       THEN Return(p, "429", count)
       ELSE /\ pc' = [pc EXCEPT ![p] = "incr"]
            /\ UNCHANGED <<response, countAfter, everDenied>>
    /\ UNCHANGED <<revision, configured, count, ttl, path, ip, failed,
                   admitted, faults>>

(***************************************************************************)
(* INCR ratelimit:<ip> answered; EXPIRE follows only if currentCount = 0.  *)
(***************************************************************************)
IncrOk(p) ==
    /\ UNCHANGED notRate
    /\ pc[p] = "incr"
    /\ count' = [count EXCEPT ![RatelimitKey(ip[p])] = @ + 1]
    /\ admitted' = [admitted EXCEPT ![ip[p]] = @ + 1]
    /\ IF currentCount[p] = 0
       THEN /\ pc' = [pc EXCEPT ![p] = "expire"]
            /\ UNCHANGED <<response, countAfter, everDenied>>
       ELSE Return(p, "next", count')
    /\ UNCHANGED <<revision, configured, ttl, path, ip, currentCount, failed,
                   faults>>

(***************************************************************************)
(* EXPIRE ratelimit:<ip> W answered (no effect on an absent key).          *)
(***************************************************************************)
ExpireOk(p) ==
    /\ UNCHANGED notRate
    /\ pc[p] = "expire"
    /\ ttl' = IF count[RatelimitKey(ip[p])] > 0
              THEN [ttl EXCEPT ![RatelimitKey(ip[p])] = RATE_LIMIT_WINDOW]
              ELSE ttl
    /\ Return(p, "next", count)
    /\ UNCHANGED <<revision, configured, count, path, ip, currentCount,
                   failed, admitted, faults>>

(***************************************************************************)
(* The caller has the response; the slot serves the next request.          *)
(***************************************************************************)
Finish(p) ==
    /\ UNCHANGED notRate
    /\ pc[p] = "done"
    /\ pc' = [pc EXCEPT ![p] = "idle"]
    /\ path' = [path EXCEPT ![p] = "chat"]
    /\ ip' = [ip EXCEPT ![p] = 1]
    /\ currentCount' = [currentCount EXCEPT ![p] = 0]
    /\ response' = [response EXCEPT ![p] = "none"]
    /\ failed' = [failed EXCEPT ![p] = FALSE]
    /\ countAfter' = [countAfter EXCEPT ![p] = 0]
    /\ UNCHANGED <<revision, configured, count, ttl, admitted, everDenied,
                   faults>>

(***************************************************************************)
(* Store-side expiry: TickSeconds pass; a key whose time is up is deleted. *)
(***************************************************************************)
Expired(c) == ttl[c] # NoTtl /\ ttl[c] <= TickSeconds

Tick ==
    /\ UNCHANGED notRate
    /\ \E c \in Ips : ttl[c] # NoTtl
    /\ ttl' = [c \in Ips |-> IF ttl[c] = NoTtl \/ Expired(c) THEN NoTtl
                             ELSE ttl[c] - TickSeconds]
    /\ count' = [c \in Ips |-> IF Expired(c) THEN 0 ELSE count[c]]
    /\ admitted' = [c \in Ips |-> IF Expired(c) THEN 0 ELSE admitted[c]]
    /\ UNCHANGED <<revision, configured, pc, path, ip, currentCount,
                   response, failed, countAfter, everDenied, faults>>

(***************************************************************************)
(* A store call that fails (network error or a non-2xx answer).  part_002  *)
(* catches it inside redisRequest and goes on with null; part_003 lets it  *)
(* reach the catch of middleware, which passes the request through.        *)
(***************************************************************************)
GetFailDeny(p) ==
    /\ UNCHANGED notRate
    /\ pc[p] = "get"
    /\ faults < MaxFaults
    /\ faults' = faults + 1
    /\ failed' = [failed EXCEPT ![p] = TRUE]
    /\ Return(p, "429", count)
    /\ UNCHANGED <<revision, configured, count, ttl, path, ip, currentCount,
                   admitted>>

GetFail(p) ==
    /\ UNCHANGED notRate
    /\ pc[p] = "get"
    /\ faults < MaxFaults
    /\ faults' = faults + 1
    /\ failed' = [failed EXCEPT ![p] = TRUE]
    /\ IF revision = "part_002"
       THEN /\ currentCount' = [currentCount EXCEPT ![p] = 0]
            /\ pc' = [pc EXCEPT ![p] = "incr"]
            /\ UNCHANGED <<response, countAfter, everDenied, admitted>>
       ELSE /\ Return(p, "next", count)
            /\ admitted' = [admitted EXCEPT ![ip[p]] = @ + 1]
            /\ UNCHANGED currentCount
    /\ UNCHANGED <<revision, configured, count, ttl, path, ip>>

IncrFail(p) ==
    /\ UNCHANGED notRate
    /\ pc[p] = "incr"
    /\ faults < MaxFaults
    /\ faults' = faults + 1
    /\ failed' = [failed EXCEPT ![p] = TRUE]
    /\ admitted' = [admitted EXCEPT ![ip[p]] = @ + 1]
    /\ IF revision = "part_002" /\ currentCount[p] = 0
       THEN /\ pc' = [pc EXCEPT ![p] = "expire"]
            /\ UNCHANGED <<response, countAfter, everDenied>>
       ELSE Return(p, "next", count)
    /\ UNCHANGED <<revision, configured, count, ttl, path, ip, currentCount>>

ExpireFail(p) ==
    /\ UNCHANGED notRate
    /\ pc[p] = "expire"
    /\ faults < MaxFaults
    /\ faults' = faults + 1
    /\ failed' = [failed EXCEPT ![p] = TRUE]
    /\ Return(p, "next", count)
    /\ UNCHANGED <<revision, configured, count, ttl, path, ip, currentCount,
                   admitted>>

AllIdle == \A q \in Procs : pc[q] = "idle"

(***************************************************************************)
(* Sequential requests, reachable store.                                   *)
(***************************************************************************)
InitSeq == RateInit /\ CrawlIdle /\ CacheIdle /\ OrchIdle

NextSeq ==
    \/ \E p \in Procs, c \in OneClient, pth \in Paths :
          AllIdle /\ Start(p, c, pth)
    \/ \E p \in Procs : GetOk(p)
    \/ \E p \in Procs : IncrOk(p)
    \/ \E p \in Procs : ExpireOk(p)
    \/ \E p \in Procs : Finish(p)
    \/ Tick

SpecSeq == InitSeq /\ [][NextSeq]_vars

(***************************************************************************)
(* Concurrent requests, one per invocation slot, reachable store.  The     *)
(* store starts with any counter value from which the limit is in reach.   *)
(***************************************************************************)
StoredCounts ==
    {0, 1} \cup ((RATE_LIMIT_REQUESTS - NumProcs)..RATE_LIMIT_REQUESTS)

InitWarm ==
    /\ RequestInit
    /\ CrawlIdle
    /\ CacheIdle
    /\ OrchIdle
    /\ \E k \in StoredCounts :
          /\ count = [c \in Ips |-> k]
          /\ admitted = [c \in Ips |-> k]
          /\ ttl = [c \in Ips |-> IF k = 0 THEN NoTtl ELSE RATE_LIMIT_WINDOW]

NextRace ==
    \/ \E p \in Procs, c \in OneClient, pth \in Paths : Start(p, c, pth)
    \/ \E p \in Procs : GetOk(p)
    \/ \E p \in Procs : IncrOk(p)
    \/ \E p \in Procs : ExpireOk(p)
    \/ Tick

SpecRace == InitWarm /\ [][NextRace]_vars

(***************************************************************************)
(* Concurrent requests, store calls may fail.                              *)
(***************************************************************************)
NextFaulty ==
    \/ \E p \in 1..NumFaultyProcs, c \in OneClient, pth \in Paths :
          Start(p, c, pth)
    \/ \E p \in Procs : GetOk(p)
    \/ \E p \in Procs : IncrOk(p)
    \/ \E p \in Procs : ExpireOk(p)
    \/ Tick
    \/ \E p \in Procs : GetFail(p)
    \/ \E p \in Procs : IncrFail(p)
    \/ \E p \in Procs : ExpireFail(p)

SpecFaulty == InitWarm /\ [][NextFaulty]_vars

(***************************************************************************)
(* The middleware in front of POST /api/chat.  A response other than       *)
(* NextResponse.next() is the answer to the client and the route handler   *)
(* does not run; after next() the handler runs: an empty message is        *)
(* answered 400 at once; otherwise each URL is looked up in the cache and  *)
(* fetched on a miss, and then the LLM is asked.                           *)
(***************************************************************************)
ForwardedAlways(r) == TRUE

Forwarded(r) == r = "next"

gateFrame ==
    <<crawlVars, cacheVars, orchVars, chartVars, dispatchVars, shareVars,
      truncVars, pageVars>>

HandlerRuns(p) ==
    /\ pc[p] = "done"
    /\ path[p] = "chat"
    /\ Forwarded(response[p])

PostWorks == {<<>>, <<"llm">>, <<"cache", "llm">>, <<"cache", "fetch", "llm">>}

Post(p) ==
    /\ UNCHANGED gateFrame
    /\ UNCHANGED rlVars
    /\ HandlerRuns(p)
    /\ hPc[p] = "none"
    /\ hPc' = [hPc EXCEPT ![p] = "returned"]
    /\ \E w \in PostWorks : hWork' = [hWork EXCEPT ![p] = w]

NextGate ==
    \/ \E p \in 1..NumFaultyProcs, c \in Ips, pth \in Paths :
          Start(p, c, pth)
    \/ \E p \in Procs : GetOk(p)
    \/ \E p \in Procs : IncrOk(p)
    \/ \E p \in Procs : ExpireOk(p)
    \/ Tick
    \/ \E p \in Procs : Post(p)

SpecGate == InitWarm /\ [][NextGate]_vars

(***************************************************************************)
(* The crawlers.  A crawl starts on the seed: WebCrawler's constructor     *)
(* queues {url: startUrl, depth: 0}; crawlHierarchically calls             *)
(* crawl(startUrl, 0).                                                     *)
(***************************************************************************)
RateIdle == RateInit /\ revision = "part_003" /\ configured

InitCrawl ==
    /\ RateIdle
    /\ CacheIdle
    /\ OrchIdle
    /\ crawler \in {"WebCrawler", "crawlHierarchically"}
    /\ site \in Sites
    /\ IF crawler = "WebCrawler"
       THEN /\ config = [maxDepth |-> MAX_DEPTH, maxPages |-> MAX_PAGES,
                      filters |-> "none"]
            /\ cpc = "loop"
            /\ queue = <<[url |-> Seed, depth |-> 0]>>
            /\ current = NoTask
       ELSE /\ config \in Configs
            /\ cpc = "call"
            /\ queue = <<>>
            /\ current = [url |-> Seed, depth |-> 0]
    /\ visited = {}
    /\ results = <<>>
    /\ callStack = <<>>
    /\ fetchLog = <<>>
    /\ fetchFails = 0
    /\ failedUrls = {}

(***************************************************************************)
(* Helpers of the two loops.                                               *)
(***************************************************************************)
PagesLeftOffByOne(n) == n <= MAX_PAGES

PagesLeft(n) == n < MAX_PAGES

MayExpandOffByOne(d) == d <= MAX_DEPTH

MayExpand(d) == d < MAX_DEPTH

NeverVisited(u) == FALSE

HasVisited(u) == u \in visited

RestKeep(q) == q

Rest(q) == Tail(q)

PushFront(q, tasks) == tasks \o q

Push(q, tasks) == q \o tasks

Dedup(links) ==
    LET first == {i \in 1..Len(links) :
                    \A j \in 1..(i - 1) : links[j] # links[i]}
        F[i \in 0..Len(links)] ==
            IF i = 0 THEN <<>>
            ELSE IF i \in first THEN Append(F[i - 1], links[i])
            ELSE F[i - 1]
    IN  F[Len(links)]

NewTasksSameDepth(links, d) ==
    LET fresh == SelectSeq(links, LAMBDA l : ~HasVisited(l))
    IN  [i \in 1..Len(fresh) |-> [url |-> fresh[i], depth |-> d]]

NewTasks(links, d) ==
    LET fresh == SelectSeq(links, LAMBDA l : ~HasVisited(l))
    IN  [i \in 1..Len(fresh) |-> [url |-> fresh[i], depth |-> d + 1]]

(***************************************************************************)
(* WebCrawler.crawl: one pass of the while loop up to the await.           *)
(***************************************************************************)
WLoop ==
    /\ UNCHANGED notCrawl
    /\ crawler = "WebCrawler" /\ cpc = "loop"
    /\ IF Len(queue) > 0 /\ PagesLeft(Len(results))
       THEN /\ current' = Head(queue)
            /\ queue' = Rest(queue)
            /\ IF HasVisited(Head(queue).url)
               THEN UNCHANGED <<cpc, visited, fetchLog>>
               ELSE /\ visited' = visited \cup {Head(queue).url}
                    /\ fetchLog' = Append(fetchLog, Head(queue))
                    /\ cpc' = "fetching"
       ELSE /\ cpc' = "done"
            /\ UNCHANGED <<current, queue, visited, fetchLog>>
    /\ UNCHANGED <<crawler, site, config, results, callStack, fetchFails,
                   failedUrls>>

(***************************************************************************)
(* crawlPage answered with a page: push the result, queue its links.       *)
(***************************************************************************)
WFetchOk ==
    /\ UNCHANGED notCrawl
    /\ crawler = "WebCrawler" /\ cpc = "fetching"
    /\ results' = Append(results, current)
    /\ queue' = IF MayExpand(current.depth)
                THEN Push(queue, NewTasks(SiteLinks(site, current.url),
                                          current.depth))
                ELSE queue
    /\ cpc' = "loop"
    /\ UNCHANGED <<crawler, site, config, visited, current, callStack,
                   fetchLog, fetchFails,
                   failedUrls>>

(***************************************************************************)
(* crawlPage answered null: the fetch threw or the response was not ok.    *)
(***************************************************************************)
WFetchNull ==
    /\ UNCHANGED notCrawl
    /\ crawler = "WebCrawler" /\ cpc = "fetching"
    /\ fetchFails < MaxFetchFail
    /\ fetchFails' = fetchFails + 1
    /\ failedUrls' = failedUrls \cup {current.url}
    /\ cpc' = "loop"
    /\ UNCHANGED <<crawler, site, config, visited, queue, results, current,
                   callStack, fetchLog>>

(***************************************************************************)
(* crawlHierarchically: entry of crawl(url, depth), up to the await.       *)
(***************************************************************************)
HCall ==
    /\ UNCHANGED notCrawl
    /\ crawler = "crawlHierarchically" /\ cpc = "call"
    /\ IF \/ current.depth > config.maxDepth
          \/ Cardinality(visited) >= config.maxPages
          \/ HasVisited(current.url)
       THEN /\ cpc' = "next"
            /\ UNCHANGED <<visited, fetchLog>>
       ELSE /\ visited' = visited \cup {current.url}
            /\ fetchLog' = Append(fetchLog, current)
            /\ cpc' = "fetching"
    /\ UNCHANGED <<crawler, site, config, queue, results, current,
                   callStack, fetchFails,
                   failedUrls>>

(***************************************************************************)
(* The links crawl() collects from a page: each a[href] that passes the    *)
(* filters of the config, added to a Set.  They are both what the result   *)
(* lists as links and what the loop follows.                               *)
(***************************************************************************)
PageLinks(cfg, u) ==
    Dedup(SelectSeq(SiteLinks(site, u), LAMBDA l : Follows(cfg, l)))

(***************************************************************************)
(* The page arrived and parsed: push the result, then loop over its links  *)
(* (a Set, so each link once, in document order).                          *)
(***************************************************************************)
HFetchOk ==
    /\ UNCHANGED notCrawl
    /\ crawler = "crawlHierarchically" /\ cpc = "fetching"
    /\ results' = Append(results, current)
    /\ callStack' = Append(callStack,
                           [depth |-> current.depth,
                            todo |-> PageLinks(config, current.url)])
    /\ cpc' = "next"
    /\ UNCHANGED <<crawler, site, config, visited, queue, current, fetchLog,
                   fetchFails,
                   failedUrls>>

(***************************************************************************)
(* fetch or the parse threw: the catch logs it and crawl() returns.        *)
(***************************************************************************)
HFetchThrow ==
    /\ UNCHANGED notCrawl
    /\ crawler = "crawlHierarchically" /\ cpc = "fetching"
    /\ fetchFails < MaxFetchFail
    /\ fetchFails' = fetchFails + 1
    /\ failedUrls' = failedUrls \cup {current.url}
    /\ cpc' = "next"
    /\ UNCHANGED <<crawler, site, config, visited, queue, results, current,
                   callStack, fetchLog>>

(***************************************************************************)
(* fetch resolved with a response that is not ok.  crawl() does not look   *)
(* at response.ok: the body of the error page is parsed as any page and   *)
(* is pushed to results; the error pages of the sites hold no links.       *)
(***************************************************************************)
ErrorPageLinks(u) == <<>>

HFetchNotOk ==
    /\ UNCHANGED notCrawl
    /\ crawler = "crawlHierarchically" /\ cpc = "fetching"
    /\ fetchFails < MaxFetchFail
    /\ fetchFails' = fetchFails + 1
    /\ failedUrls' = failedUrls \cup {current.url}
    /\ results' = Append(results, current)
    /\ callStack' = Append(callStack,
                           [depth |-> current.depth,
                            todo |-> ErrorPageLinks(current.url)])
    /\ cpc' = "next"
    /\ UNCHANGED <<crawler, site, config, visited, queue, current, fetchLog>>

(***************************************************************************)
(* for (const link of links) await crawl(link, depth + 1), and the return  *)
(* to the caller's loop when the links are used up.                        *)
(***************************************************************************)
HNext ==
    /\ UNCHANGED notCrawl
    /\ crawler = "crawlHierarchically" /\ cpc = "next"
    /\ IF callStack = <<>>
       THEN /\ cpc' = "done"
            /\ UNCHANGED <<current, callStack>>
       ELSE LET n == Len(callStack)
                top == callStack[n]
            IN  IF top.todo = <<>>
                THEN /\ callStack' = SubSeq(callStack, 1, n - 1)
                     /\ UNCHANGED <<cpc, current>>
                ELSE /\ current' = [url |-> Head(top.todo),
                                    depth |-> top.depth + 1]
                     /\ callStack' = [callStack EXCEPT
                                        ![n].todo = Tail(top.todo)]
                     /\ cpc' = "call"
    /\ UNCHANGED <<crawler, site, config, visited, queue, results, fetchLog,
                   fetchFails,
                   failedUrls>>

NextCrawl ==
    \/ WLoop
    \/ WFetchOk
    \/ WFetchNull
    \/ HCall
    \/ HFetchOk
    \/ HFetchThrow
    \/ HFetchNotOk
    \/ HNext

(***************************************************************************)
(* The event loop runs a crawl on while it has a step to take.             *)
(***************************************************************************)
SpecCrawl == InitCrawl /\ [][NextCrawl]_vars /\ WF_vars(NextCrawl)

(***************************************************************************)
(* extractContent(url) is called.  route_2 skips the read without a client.*)
(***************************************************************************)
EStart(u) ==
    /\ UNCHANGED notCache
    /\ epc = "idle"
    /\ eurl' = u
    /\ epc' = IF redis THEN "read" ELSE "extract"
    /\ UNCHANGED <<routeRev, redis, autoDeserialize, cache, cacheTtl,
                   cachedContent, result, returned, readSaw, extractorCalls,
                   cacheWrites, storeUp, faulted>>

(***************************************************************************)
(* await getCachedContent(url); if (cachedContent) return cachedContent.   *)
(* A rejected redis.get lands in getCachedContent's catch.                 *)
(***************************************************************************)
ERead ==
    /\ UNCHANGED notCache
    /\ epc = "read"
    /\ readSaw' = IF storeUp THEN cache[eurl] ELSE StoreError
    /\ cachedContent' = IF storeUp THEN GetCachedContent(ClientGet(cache[eurl]))
                        ELSE CatchRead
    /\ faulted' = (faulted \/ ~storeUp)
    /\ IF cachedContent' # Null
       THEN /\ returned' = cachedContent'
            /\ epc' = "done"
       ELSE /\ epc' = "extract"
            /\ UNCHANGED returned
    /\ UNCHANGED <<routeRev, redis, autoDeserialize, cache, cacheTtl, eurl,
                   result, extractorCalls, cacheWrites, storeUp>>

(***************************************************************************)
(* The extractor for the file type answers c; truncateText; the result is  *)
(* built.  route_1 parses CSV content with JSON.parse inside the try, so   *)
(* content that is not JSON ends in the catch: return { content: '' }.     *)
(* route_2 parses in processCSVData, which catches.  route_1 replaces the   *)
(* visualization by detectChartableData's chart when that finds one.       *)
(***************************************************************************)
ChartOverride(c) ==
    IF routeRev = "route_1" /\ c = "text" THEN {"bar"} ELSE {}

EExtract(c) ==
    /\ UNCHANGED notCache
    /\ epc = "extract"
    /\ c \in ExtractorOutputs(eurl)
    /\ extractorCalls' = extractorCalls + 1
    /\ IF FileType(eurl) = "csv" /\ c # "json"
       THEN IF routeRev = "route_1"
            THEN /\ returned' = ContentResult("", "none")
                 /\ epc' = "done"
                 /\ UNCHANGED result
            ELSE /\ result' = ContentResult(c, "none")
                 /\ epc' = "write"
                 /\ UNCHANGED returned
       ELSE /\ \E v \in ChartOverride(c) \cup
                       {IF FileType(eurl) = "csv" THEN "line" ELSE "none"} :
                   result' = ContentResult(c, v)
            /\ epc' = "write"
            /\ UNCHANGED returned
    /\ UNCHANGED <<routeRev, redis, autoDeserialize, cache, cacheTtl, eurl,
                   cachedContent, readSaw, cacheWrites, storeUp, faulted>>

(***************************************************************************)
(* await cacheContent(url, result); return result.  A rejected redis.set   *)
(* lands in cacheContent's catch.                                          *)
(***************************************************************************)
EWrite ==
    /\ UNCHANGED notCache
    /\ epc = "write"
    /\ faulted' = (faulted \/ (redis /\ ~storeUp))
    /\ IF redis /\ storeUp
       THEN /\ cache' = [cache EXCEPT ![eurl] = Stringify(result)]
            /\ cacheTtl' = [cacheTtl EXCEPT ![eurl] = CACHE_TTL]
            /\ cacheWrites' = Append(cacheWrites,
                                      <<Stringify(result), CACHE_TTL>>)
       ELSE UNCHANGED <<cache, cacheTtl, cacheWrites>>
    /\ returned' = result
    /\ epc' = "done"
    /\ UNCHANGED <<routeRev, redis, autoDeserialize, eurl, cachedContent,
                   result, readSaw, extractorCalls, storeUp>>

(***************************************************************************)
(* The caller has the result; the next extractContent may start.           *)
(***************************************************************************)
EFinish ==
    /\ UNCHANGED notCache
    /\ epc = "done"
    /\ epc' = "idle"
    /\ eurl' = "https://site/page"
    /\ cachedContent' = Null
    /\ result' = Null
    /\ returned' = Null
    /\ readSaw' = NoEntry
    /\ extractorCalls' = 0
    /\ cacheWrites' = <<>>
    /\ faulted' = FALSE
    /\ UNCHANGED <<routeRev, redis, autoDeserialize, cache, cacheTtl, storeUp>>

(***************************************************************************)
(* lib/cache.ts: cacheContent(url, content) stores the string as it is,    *)
(* getCachedContent(url) returns what redis.get resolves to.               *)
(***************************************************************************)
LibCacheContent(u, c) ==
    /\ UNCHANGED notCache
    /\ epc = "idle"
    /\ IF storeUp
       THEN /\ cache' = [cache EXCEPT ![u] = PlainString(c)]
            /\ cacheTtl' = [cacheTtl EXCEPT ![u] = CACHE_TTL]
       ELSE UNCHANGED <<cache, cacheTtl>>
    /\ UNCHANGED <<routeRev, redis, autoDeserialize, epc, eurl, cachedContent,
                   result, returned, readSaw, extractorCalls, cacheWrites,
                   storeUp, faulted>>

LibGetCachedContent(u) == IF storeUp THEN ClientGet(cache[u]) ELSE Null

(***************************************************************************)
(* Store-side expiry of the content:<url> entries.                         *)
(***************************************************************************)
CacheExpired(u) == cacheTtl[u] # NoTtl /\ cacheTtl[u] <= CacheTickSeconds

CacheTick ==
    /\ UNCHANGED notCache
    /\ \E u \in CacheUrls : cacheTtl[u] # NoTtl
    /\ cacheTtl' = [u \in CacheUrls |->
                      IF cacheTtl[u] = NoTtl \/ CacheExpired(u) THEN NoTtl
                      ELSE cacheTtl[u] - CacheTickSeconds]
    /\ cache' = [u \in CacheUrls |->
                   IF CacheExpired(u) THEN NoEntry ELSE cache[u]]
    /\ UNCHANGED <<routeRev, redis, autoDeserialize, epc, eurl, cachedContent,
                   result, returned, readSaw, extractorCalls, cacheWrites,
                   storeUp, faulted>>

(***************************************************************************)
(* The store becomes unreachable, or reachable again.                      *)
(***************************************************************************)
StoreFlip ==
    /\ UNCHANGED notCache
    /\ storeUp' = ~storeUp
    /\ UNCHANGED <<routeRev, redis, autoDeserialize, cache, cacheTtl, epc,
                   eurl, cachedContent, result, returned, readSaw,
                   extractorCalls, cacheWrites, faulted>>

NextCache ==
    \/ \E u \in CacheUrls : EStart(u)
    \/ ERead
    \/ \E c \in Contents : EExtract(c)
    \/ EWrite
    \/ EFinish
    \/ \E u \in CacheUrls, c \in {"text", "json"} : LibCacheContent(u, c)
    \/ CacheTick
    \/ StoreFlip

InitCacheSpec == RateIdle /\ CrawlIdle /\ InitCache /\ OrchIdle

SpecCache == InitCacheSpec /\ [][NextCache]_vars

(***************************************************************************)
(* POST / processUrls: for (const url of urls) { try { const result =      *)
(* await extractContent(url); if (result.content) {..} } catch {..} }.     *)
(* Each request is its own async call chain; the chains of different       *)
(* requests interleave at every await.                                     *)
(***************************************************************************)
cacheEnv == <<routeRev, redis, autoDeserialize, storeUp>>
callVars == <<epc, eurl, cachedContent, result, returned, readSaw,
              extractorCalls, cacheWrites, faulted>>
orchFrame == <<rlVars, crawlVars, cacheEnv, callVars, chartVars, auxVars>>

Kind(r, i) == FileType(oUrls[r][i])

\* the catch of route.ts:89 is entered: JSON.parse(content) threw
RouteThrows(u, c) ==
    routeRev = "route_1" /\ FileType(u) = "csv" /\ c # "json"

RouteViz(u, c) ==
    ChartOverride(c) \cup
        {IF FileType(u) = "csv" /\ c = "json" THEN "line" ELSE "none"}

\* if (result.content)
EveryResult(res) == TRUE
HasContent(res) == res.content # ""

\* the loop body awaits extractContent before the next iteration
NotAwaited(r, i) == TRUE
AwaitedWithContent(r, i) ==
    \A j \in 1..(i - 1) : oPhase[r][j] = "collected" /\ oRes[r][j].content # ""
Awaited(r, i) == \A j \in 1..(i - 1) : oPhase[r][j] = "collected"

OStart(r, urls) ==
    /\ UNCHANGED orchFrame
    /\ oPc[r] = "idle"
    /\ oPc' = [oPc EXCEPT ![r] = "loop"]
    /\ oUrls' = [oUrls EXCEPT ![r] = urls]
    /\ UNCHANGED <<world, cache, cacheTtl, oIdx, oPhase, oRes, oFetches,
                   inFlight, context, validSources, visualizations, oLog>>

\* the loop takes the next url and calls extractContent(url)
OIter(r) ==
    /\ UNCHANGED orchFrame
    /\ oPc[r] = "loop"
    /\ oIdx[r] <= Len(oUrls[r])
    /\ Awaited(r, oIdx[r])
    /\ oPhase' = [oPhase EXCEPT ![r][oIdx[r]] = "check"]
    /\ oIdx' = [oIdx EXCEPT ![r] = @ + 1]
    /\ UNCHANGED <<world, cache, cacheTtl, oPc, oUrls, oRes, oFetches,
                   inFlight, context, validSources, visualizations, oLog>>

\* getCachedContent(url); if (cachedContent) return cachedContent
OCheck(r, i) ==
    /\ UNCHANGED orchFrame
    /\ oPhase[r][i] = "check"
    /\ LET got == IF ~redis THEN Null
                  ELSE IF storeUp
                       THEN GetCachedContent(ClientGet(cache[oUrls[r][i]]))
                       ELSE CatchRead
       IN  IF got # Null
           THEN /\ oRes' = [oRes EXCEPT ![r][i] = got]
                /\ oPhase' = [oPhase EXCEPT ![r][i] = "ready"]
           ELSE /\ oPhase' = [oPhase EXCEPT ![r][i] = "fetch"]
                /\ UNCHANGED oRes
    /\ oFetches' = [oFetches EXCEPT ![r] = 0]
    /\ oLog' = [oLog EXCEPT ![r] = Append(@, <<i, "check">>)]
    /\ UNCHANGED <<world, cache, cacheTtl, oPc, oUrls, oIdx, inFlight,
                   context, validSources, visualizations>>

\* the extractor issues await fetch(..)
OFetchBegin(r, i) ==
    /\ UNCHANGED orchFrame
    /\ oPhase[r][i] = "fetch"
    /\ oPhase' = [oPhase EXCEPT ![r][i] = "fetching"]
    /\ inFlight' = [inFlight EXCEPT ![r] = @ + 1]
    /\ oLog' = [oLog EXCEPT ![r] = Append(@, <<i, "fetch">>)]
    /\ UNCHANGED <<world, cache, cacheTtl, oPc, oUrls, oIdx, oRes, oFetches,
                   context, validSources, visualizations>>

\* the fetch settles; a crawl goes on to its next page, otherwise the
\* extractor returns and extractContent builds its result
OFetchEnd(r, i) ==
    /\ UNCHANGED orchFrame
    /\ oPhase[r][i] = "fetching"
    /\ inFlight' = [inFlight EXCEPT ![r] = @ - 1]
    /\ oFetches' = [oFetches EXCEPT ![r] = @ + 1]
    /\ LET u == oUrls[r][i]
           c == TruncateText(Extractor(FileType(u), world[u]))
       IN  IF /\ FileType(u) \notin {"csv", "pdf"}
              /\ world[u] # "unreachable"
              /\ oFetches[r] + 1 < MaxCrawlFetches
           THEN /\ oPhase' = [oPhase EXCEPT ![r][i] = "fetch"]
                /\ UNCHANGED oRes
           ELSE IF RouteThrows(u, c)
                THEN /\ oRes' = [oRes EXCEPT ![r][i] = ContentResult("", "none")]
                     /\ oPhase' = [oPhase EXCEPT ![r][i] = "ready"]
                ELSE /\ \E v \in RouteViz(u, c) :
                            oRes' = [oRes EXCEPT ![r][i] = ContentResult(c, v)]
                     /\ oPhase' = [oPhase EXCEPT ![r][i] = "write"]
    /\ UNCHANGED <<world, cache, cacheTtl, oPc, oUrls, oIdx, context,
                   validSources, visualizations, oLog>>

\* await cacheContent(url, result); return result
OWrite(r, i) ==
    /\ UNCHANGED orchFrame
    /\ oPhase[r][i] = "write"
    /\ IF redis /\ storeUp
       THEN /\ cache' = [cache EXCEPT ![oUrls[r][i]] = Stringify(oRes[r][i])]
            /\ cacheTtl' = [cacheTtl EXCEPT ![oUrls[r][i]] = CACHE_TTL]
       ELSE UNCHANGED <<cache, cacheTtl>>
    /\ oPhase' = [oPhase EXCEPT ![r][i] = "ready"]
    /\ oLog' = [oLog EXCEPT ![r] = Append(@, <<i, "write">>)]
    /\ UNCHANGED <<world, oPc, oUrls, oIdx, oRes, oFetches, inFlight,
                   context, validSources, visualizations>>

\* if (result.content) { context += ..; validSources.push(url); .. }
OCollect(r, i) ==
    /\ UNCHANGED orchFrame
    /\ oPhase[r][i] = "ready"
    /\ oPhase' = [oPhase EXCEPT ![r][i] = "collected"]
    /\ IF HasContent(oRes[r][i])
       THEN /\ context' = [context EXCEPT ![r] = Append(@, oRes[r][i].content)]
            /\ validSources' =
                   [validSources EXCEPT ![r] = Append(@, oUrls[r][i])]
            /\ visualizations' =
                   IF oRes[r][i].viz # "none"
                   THEN [visualizations EXCEPT ![r] = Append(@, oRes[r][i].viz)]
                   ELSE visualizations
       ELSE UNCHANGED <<context, validSources, visualizations>>
    /\ UNCHANGED <<world, cache, cacheTtl, oPc, oUrls, oIdx, oRes, oFetches,
                   inFlight, oLog>>

\* the loop is over: return { context, validSources, visualizations }
ODone(r) ==
    /\ UNCHANGED orchFrame
    /\ oPc[r] = "loop"
    /\ oIdx[r] > Len(oUrls[r])
    /\ Awaited(r, oIdx[r])
    /\ oPc' = [oPc EXCEPT ![r] = "done"]
    /\ UNCHANGED <<world, cache, cacheTtl, oUrls, oIdx, oPhase, oRes,
                   oFetches, inFlight, context, validSources, visualizations,
                   oLog>>

\* NextResponse.json({.., sources: validSources, visualizations}); the
\* request is over
OReturn(r) ==
    /\ UNCHANGED orchFrame
    /\ oPc[r] = "done"
    /\ oPc' = [oPc EXCEPT ![r] = "idle"]
    /\ oUrls' = [oUrls EXCEPT ![r] = <<>>]
    /\ oIdx' = [oIdx EXCEPT ![r] = 1]
    /\ oPhase' = [oPhase EXCEPT ![r] = [i \in Slots |-> "new"]]
    /\ oRes' = [oRes EXCEPT ![r] = [i \in Slots |-> Null]]
    /\ oFetches' = [oFetches EXCEPT ![r] = 0]
    /\ context' = [context EXCEPT ![r] = <<>>]
    /\ validSources' = [validSources EXCEPT ![r] = <<>>]
    /\ visualizations' = [visualizations EXCEPT ![r] = <<>>]
    /\ oLog' = [oLog EXCEPT ![r] = <<>>]
    /\ UNCHANGED <<world, cache, cacheTtl, inFlight>>

OSteps ==
    \/ \E r \in Reqs : OIter(r)
    \/ \E r \in Reqs, i \in Slots : OCheck(r, i)
    \/ \E r \in Reqs, i \in Slots : OFetchBegin(r, i)
    \/ \E r \in Reqs, i \in Slots : OFetchEnd(r, i)
    \/ \E r \in Reqs, i \in Slots : OWrite(r, i)
    \/ \E r \in Reqs, i \in Slots : OCollect(r, i)
    \/ \E r \in Reqs : ODone(r)

\* one request after the other
NextOrch ==
    \/ \E urls \in UrlLists : OStart(1, urls)
    \/ OSteps
    \/ OReturn(1)

\* requests that overlap
NextOrchRace ==
    \/ \E r \in Reqs, urls \in RaceLists : OStart(r, urls)
    \/ OSteps

InitOrch ==
    /\ RateIdle
    /\ CrawlIdle
    /\ InitCache
    /\ ~autoDeserialize
    /\ world \in Worlds
    /\ OrchRequestsIdle
    /\ ChartIdle
    /\ AuxIdle

(***************************************************************************)
(* The event loop runs a pending continuation while there is one.          *)
(***************************************************************************)
SpecOrch == InitOrch /\ [][NextOrch]_vars /\ WF_vars(OSteps)

SpecOrchRace == InitOrch /\ [][NextOrchRace]_vars /\ WF_vars(OSteps)

(***************************************************************************)
(* detectChartableData in its four versions, and the chart extractCSV      *)
(* builds.                                                                 *)
(***************************************************************************)
\* content.split('\n').map(line => line.trim()).filter(Boolean)
NonBlank(lines) == SelectSeq(lines, LAMBDA l : l # <<>>)

IsNum(cell) == cell = "n"

\* rows whose cell count is the header's
Matching(L) == SelectSeq(Tail(L), LAMBDA row : Len(row) = Len(L[1]))

\* type: data.length > 10 ? 'line' : 'bar'
KindByColumns(data, numeric) == IF numeric > 2 THEN "line" ELSE "bar"
KindByRows(data) == IF Len(data) > 10 THEN "line" ELSE "bar"

\* route.ts:177-235 (and part_004): a row is kept if one of its cells
\* parses as a number
DetectRoute(lines) ==
    LET L == NonBlank(lines)
        data == SelectSeq(Matching(L),
                          LAMBDA row : \E c \in 1..Len(row) : IsNum(row[c]))
    IN  IF Len(L) < 3 THEN NoChart
        ELSE IF Len(data) >= 2 THEN Chart(KindByRows(data), data)
        ELSE NoChart

\* extractors.ts:28-79: every row of the header's width is kept
DetectExtractors(lines) ==
    LET L == NonBlank(lines)
        data == Matching(L)
    IN  IF Len(L) < 3 THEN NoChart
        ELSE IF Len(data) >= 2 THEN Chart(KindByRows(data), data)
        ELSE NoChart

\* utils.ts:21-51
DetectUtils(lines) ==
    LET L == NonBlank(lines)
        data == Matching(L)
    IN  IF Len(L) < 2 THEN NoChart
        ELSE IF Len(data) = 0 THEN NoChart
        ELSE Chart(KindByRows(data), data)

\* part_003:236-287: the first row needs a number; a 'date' header
\* gives a line chart
DetectPart003(lines) ==
    LET L == NonBlank(lines)
        data == Matching(L)
    IN  IF Len(L) < 2 THEN NoChart
        ELSE IF Len(data) = 0 THEN NoChart
        ELSE IF ~ \E c \in 1..Len(L[1]) : IsNum(data[1][c]) THEN NoChart
        ELSE Chart(IF Len(data) > 10 \/ \E c \in 1..Len(L[1]) : L[1][c] = "date"
                   THEN "line" ELSE "bar", data)

(***************************************************************************)
(* extractCSV (extractors.ts:379-450).  parse(text, {columns: true,        *)
(* skip_empty_lines: true}) throws on a record whose field count is not    *)
(* the header's; no record gives the 'No data found' message.  The chart   *)
(* keeps the label column and the numeric columns of up to 50 records.     *)
(***************************************************************************)
CsvRecords(lines) == Tail(NonBlank(lines))

CsvParses(lines) ==
    /\ NonBlank(lines) # <<>>
    /\ \A j \in 1..Len(CsvRecords(lines)) :
          Len(CsvRecords(lines)[j]) = Len(NonBlank(lines)[1])

CsvHasData(lines) == CsvParses(lines) /\ Len(CsvRecords(lines)) > 0

NumericColumns(lines) ==
    {c \in 1..Len(NonBlank(lines)[1]) :
        \A j \in 1..Len(CsvRecords(lines)) : IsNum(CsvRecords(lines)[j][c])}

LabelColumn(lines) ==
    LET other == (1..Len(NonBlank(lines)[1])) \ NumericColumns(lines)
    IN  IF other = {} THEN 1 ELSE CHOOSE c \in other : \A d \in other : c <= d

ExtractCSVChart(lines) ==
    IF ~CsvHasData(lines) THEN NoChart
    ELSE LET kept == NumericColumns(lines) \cup {LabelColumn(lines)}
             point(row) == SelectSeq([c \in 1..Len(row) |->
                                         IF c \in kept THEN row[c] ELSE "dropped"],
                                     LAMBDA x : x # "dropped")
             recs == CsvRecords(lines)
             shown == SubSeq(recs, 1, IF Len(recs) < 50 THEN Len(recs) ELSE 50)
         IN  Chart(KindByColumns(shown, Cardinality(NumericColumns(lines))),
                   [j \in 1..Len(shown) |-> point(shown[j])])

\* `- Total Records: ${records.length}`
ExtractCSVCount(lines) ==
    IF CsvHasData(lines) THEN Len(CsvRecords(lines)) ELSE NoCount

(***************************************************************************)
(* extractContent on a .csv url.  extractCSV returns one line of JSON      *)
(* holding the content and the chart.  route.ts keeps that JSON as content *)
(* and sets visualizationData to {type: 'line', data: JSON.parse(content)},*)
(* whose data is the parsed object, not a list of rows; the first revision *)
(* ends in its catch when the text is not JSON.  extractors.ts runs        *)
(* detectChartableData on the one-line JSON text.                          *)
(***************************************************************************)
RouteCsvChart(rev, lines) ==
    IF CsvHasData(lines) THEN Chart("line", <<>>) ELSE NoChart

RouteCsvCount(rev, lines) == ExtractCSVCount(lines)

LibCsvChart(lines) == DetectExtractors(<<<<"s">>>>)

Produce(impl, lines) ==
    CASE impl = "route.ts" -> DetectRoute(lines)
      [] impl = "extractors.ts" -> DetectExtractors(lines)
      [] impl = "utils.ts" -> DetectUtils(lines)
      [] impl = "part_003" -> DetectPart003(lines)
      [] impl = "extractCSV" -> ExtractCSVChart(lines)
      [] impl = "route_1.extractContent" -> RouteCsvChart("route_1", lines)
      [] impl = "route_2.extractContent" -> RouteCsvChart("route_2", lines)
      [] OTHER -> LibCsvChart(lines)

ProduceCount(impl, lines) ==
    CASE impl \in Detectors -> NoCount
      [] impl = "route_1.extractContent" -> RouteCsvCount("route_1", lines)
      [] impl = "route_2.extractContent" -> RouteCsvCount("route_2", lines)
      [] OTHER -> ExtractCSVCount(lines)

Detect ==
    /\ UNCHANGED notChart
    /\ dpc = "input"
    /\ dChart' = Produce(dImpl, dLines)
    /\ dCount' = ProduceCount(dImpl, dLines)
    /\ dpc' = "detected"
    /\ UNCHANGED <<dImpl, dLines>>

NextChart == Detect

InitChart ==
    /\ RateIdle
    /\ CrawlIdle
    /\ CacheIdle
    /\ world = [u \in CacheUrls |-> "ok"]
    /\ OrchRequestsIdle
    /\ dImpl \in Producers
    /\ dLines \in Texts
    /\ dpc = "input"
    /\ dChart = NoChart
    /\ dCount = NoCount
    /\ AuxIdle

SpecChart == InitChart /\ [][NextChart]_vars

(***************************************************************************)
(* C1: sequential requests of one client with a reachable store: exactly   *)
(* RATE_LIMIT_REQUESTS are admitted in a window (the counter equals the    *)
(* number admitted and never passes the limit), a request is answered 429  *)
(* exactly when it read the counter at the limit, and a request that finds *)
(* the key absent (the window has elapsed) is admitted and leaves the      *)
(* counter at 1.                                                           *)
(***************************************************************************)
C1_FixedWindowQuota ==
    configured =>
      /\ \A c \in Ips : admitted[c] = count[c] /\ admitted[c] <= RATE_LIMIT_REQUESTS
      /\ \A p \in Procs : pc[p] = "done" /\ path[p] = "chat" =>
            /\ (response[p] = "429") <=> (currentCount[p] = RATE_LIMIT_REQUESTS)
            /\ response[p] = "next" => countAfter[p] \in 1..RATE_LIMIT_REQUESTS
            /\ currentCount[p] = 0 => response[p] = "next" /\ countAfter[p] = 1

C1_Witness ==
    \E p \in Procs :
        /\ configured /\ pc[p] = "done" /\ path[p] = "chat"
        /\ everDenied[ip[p]]
        /\ currentCount[p] = 0 /\ response[p] = "next" /\ countAfter[p] = 1

(***************************************************************************)
(* C2: the limiter fails open: an invocation that runs without store       *)
(* credentials, or any of whose store calls failed, is passed through,     *)
(* never answered 429.                                                     *)
(***************************************************************************)
C2_FailOpen ==
    \A p \in Procs :
        pc[p] = "done" /\ (~configured \/ failed[p]) => response[p] = "next"

C2_Witness ==
    \E p \in Procs :
        /\ pc[p] = "done" /\ failed[p] /\ response[p] = "next"
        /\ Denied(count[ip[p]])

(***************************************************************************)
(* C3: under any interleaving of concurrent requests of one client, never  *)
(* more than RATE_LIMIT_REQUESTS + 1 requests are admitted in a window.    *)
(***************************************************************************)
C3_OvercountAtMostOne ==
    \A c \in Ips : admitted[c] <= RATE_LIMIT_REQUESTS + 1

(***************************************************************************)
(* C4: in every crawl, of either crawler, the results number at most       *)
(* maxPages and no URL appears twice in them.                              *)
(***************************************************************************)
C4_ResultsBounded ==
    /\ Len(results) <= config.maxPages
    /\ \A i, j \in 1..Len(results) : i # j => results[i].url # results[j].url

C4_Witness ==
    /\ cpc = "done" /\ crawler = "WebCrawler"
    /\ Len(results) = MAX_PAGES /\ Len(queue) > 0
    /\ Back(site) /\ fetchFails > 0

(***************************************************************************)
(* C5: the seed is processed at depth 0, and every page fetched or in the  *)
(* results was reached at a depth of at most maxDepth.                     *)
(***************************************************************************)
C5_DepthBounded ==
    /\ \A i \in 1..Len(fetchLog) : fetchLog[i].depth <= config.maxDepth
    /\ \A i \in 1..Len(results) :
          /\ results[i].depth <= config.maxDepth
          /\ results[i].url = Seed => results[i].depth = 0
    /\ fetchLog # <<>> => fetchLog[1] = [url |-> Seed, depth |-> 0]

C5_Witness ==
    /\ cpc = "done" /\ Back(site)
    /\ Len(results) > 0 /\ results[1] = [url |-> Seed, depth |-> 0]
    /\ \E i \in 1..Len(results) : results[i].depth = MAX_DEPTH

(***************************************************************************)
(* C6: every crawl terminates, whatever cycles and self links the site has.*)
(***************************************************************************)
C6_Terminates == <>(cpc = "done")

C6_Witness ==
    /\ cpc = "done" /\ Back(site) /\ Fan(site) > 0
    /\ Len(results) > 2 /\ fetchFails > 0

(***************************************************************************)
(* C7: a URL enters the visited set before its page is requested, and no   *)
(* URL is requested twice in one crawl.                                    *)
(***************************************************************************)
C7_VisitedBeforeFetch ==
    /\ cpc = "fetching" => current.url \in visited
    /\ \A i \in 1..Len(fetchLog) : fetchLog[i].url \in visited
    /\ \A i, j \in 1..Len(fetchLog) : i # j => fetchLog[i].url # fetchLog[j].url

C7_Witness ==
    /\ cpc = "done" /\ Back(site) /\ Fan(site) > 1
    /\ Len(fetchLog) > 3

(***************************************************************************)
(* C8: WebCrawler requests pages in non-decreasing depth.                  *)
(***************************************************************************)
C8_BreadthFirst ==
    crawler = "WebCrawler" =>
        \A i, j \in 1..Len(fetchLog) :
            i < j => fetchLog[i].depth <= fetchLog[j].depth

C8_Witness ==
    /\ crawler = "WebCrawler" /\ cpc = "done"
    /\ \E i, j \in 1..Len(fetchLog) :
          i < j /\ fetchLog[i].depth = 1 /\ fetchLog[j].depth = 1
    /\ \E i \in 1..Len(fetchLog) : fetchLog[i].depth = MAX_DEPTH

(***************************************************************************)
(* extractContent's dispatch.  The revisions of lib/extractors.ts test     *)
(* url.includes('youtube.com') || url.includes('youtu.be') first; route.ts *)
(* has no video branch.  fileType is url.split('.').pop()?.toLowerCase().  *)
(***************************************************************************)
IsYouTube(url) == url.host = "video" \/ url.mention

ToLowerCase(ending) == IF ending = "PDF" THEN "pdf" ELSE ending

ByFileType(url) ==
    CASE ToLowerCase(url.ending) = "pdf" -> "pdf"
      [] ToLowerCase(url.ending) = "csv" -> "csv"
      [] OTHER -> "article"

Dispatch(impl, url) ==
    IF impl \in {"extractors.ts", "part_004"} /\ IsYouTube(url)
    THEN "video"
    ELSE ByFileType(url)

XDispatch ==
    /\ UNCHANGED mainVars
    /\ xpc = "input"
    /\ xCalled' = Append(xCalled, Dispatch(xImpl, xUrl))
    /\ xpc' = "dispatched"
    /\ UNCHANGED <<xImpl, xUrl, xKey, xApi, xPage, xFetched, xResult>>
    /\ UNCHANGED <<gateVars, shareVars, truncVars, pageVars>>

(***************************************************************************)
(* extractVideoContent.  extractors.ts:81-198 throws when the id or the    *)
(* key is missing, when the API answers not ok, and when it has no item;   *)
(* its catch returns a failure message built from error.message.           *)
(* part_004:85-147 asks the API only if the key is set and otherwise, or   *)
(* when the API has no item, fetches the page and reads its meta tags.     *)
(***************************************************************************)
VideoFetches(impl, url, key, api) ==
    IF ~url.vid THEN <<>>
    ELSE IF impl = "part_004"
         THEN IF key THEN IF api = "empty" THEN <<"api", "page">>
                          ELSE <<"api">>
              ELSE <<"page">>
         ELSE IF key THEN <<"api">> ELSE <<>>

VideoResult(impl, url, key, api, page) ==
    IF impl = "part_004"
    THEN IF ~url.vid THEN "failed"
         ELSE IF key /\ api = "fail" THEN "failed"
         ELSE IF key /\ api = "ok" THEN "summary"
         ELSE IF page = "ok" THEN "scraped" ELSE "failed"
    ELSE IF url.vid /\ key /\ api = "ok" THEN "summary" ELSE "failedNoUrl"

XExtract ==
    /\ UNCHANGED mainVars
    /\ xpc = "dispatched"
    /\ IF xCalled[Len(xCalled)] = "video"
       THEN /\ xFetched' = VideoFetches(xImpl, xUrl, xKey, xApi)
            /\ xResult' = VideoResult(xImpl, xUrl, xKey, xApi, xPage)
       ELSE /\ xFetched' = <<>>
            /\ xResult' = "other"
    /\ xpc' = "done"
    /\ UNCHANGED <<xImpl, xUrl, xKey, xApi, xPage, xCalled>>
    /\ UNCHANGED <<gateVars, shareVars, truncVars, pageVars>>

NextDispatch == XDispatch \/ XExtract

InitDispatch ==
    /\ RateIdle
    /\ CrawlIdle
    /\ CacheIdle
    /\ world = [u \in CacheUrls |-> "ok"]
    /\ OrchRequestsIdle
    /\ ChartIdle
    /\ GateIdle
    /\ ShareIdle
    /\ TruncIdle
    /\ PageInit
    /\ xImpl \in ExtractContents
    /\ xUrl \in DispatchUrls
    /\ xKey \in BOOLEAN
    /\ xApi \in ApiAnswers
    /\ xPage \in PageAnswers
    /\ xpc = "input"
    /\ xCalled = <<>>
    /\ xFetched = <<>>
    /\ xResult = "none"

SpecDispatch == InitDispatch /\ [][NextDispatch]_vars

(***************************************************************************)
(* /api/share.  POST stores JSON.stringify(conversation) under a random    *)
(* id with ex: SHARE_TTL; GET reads the entry, which the client parses,    *)
(* and answers 404 when there is none.                                     *)
(***************************************************************************)
ShareStringify(c) == <<"json", c>>

ShareParse(e) == e[2]

SharePost(i, c) ==
    /\ UNCHANGED mainVars
    /\ UNCHANGED <<dispatchVars, gateVars, truncVars, pageVars>>
    /\ shStore' = [shStore EXCEPT ![i] = ShareStringify(c)]
    /\ shTtl' = [shTtl EXCEPT ![i] = SHARE_TTL]
    /\ shAge' = [shAge EXCEPT ![i] = 0]
    /\ shPosted' = [shPosted EXCEPT ![i] = c]
    /\ UNCHANGED shResp

ShareGet(i) ==
    /\ UNCHANGED mainVars
    /\ UNCHANGED <<dispatchVars, gateVars, truncVars, pageVars>>
    /\ shResp' = IF shStore[i] = NoShare
                 THEN [id |-> i, status |-> 404, body |-> "none",
                       age |-> shAge[i], posted |-> shPosted[i]]
                 ELSE [id |-> i, status |-> 200,
                       body |-> ShareParse(shStore[i]), age |-> shAge[i],
                       posted |-> shPosted[i]]
    /\ UNCHANGED <<shStore, shTtl, shAge, shPosted>>

ShareExpired(i) == shTtl[i] # NoTtl /\ shTtl[i] <= ShareTickSeconds

ShareTick ==
    /\ UNCHANGED mainVars
    /\ UNCHANGED <<dispatchVars, gateVars, truncVars, pageVars>>
    /\ \E i \in ShareIds : shTtl[i] # NoTtl
    /\ shTtl' = [i \in ShareIds |->
                    IF shTtl[i] = NoTtl \/ ShareExpired(i) THEN NoTtl
                    ELSE shTtl[i] - ShareTickSeconds]
    /\ shStore' = [i \in ShareIds |->
                      IF ShareExpired(i) THEN NoShare ELSE shStore[i]]
    /\ shAge' = [i \in ShareIds |->
                    IF shTtl[i] = NoTtl THEN shAge[i]
                    ELSE shAge[i] + ShareTickSeconds]
    /\ UNCHANGED <<shPosted, shResp>>

NextShare ==
    \/ \E i \in ShareIds, c \in Conversations : SharePost(i, c)
    \/ \E i \in ShareIds : ShareGet(i)
    \/ ShareTick

InitShare ==
    /\ RateIdle
    /\ CrawlIdle
    /\ CacheIdle
    /\ world = [u \in CacheUrls |-> "ok"]
    /\ OrchRequestsIdle
    /\ ChartIdle
    /\ DispatchIdle
    /\ GateIdle
    /\ ShareIdle
    /\ TruncIdle
    /\ PageInit

SpecShare == InitShare /\ [][NextShare]_vars

(***************************************************************************)
(* truncateText(text, maxLength) of lib/utils.ts; truncateContent of       *)
(* lib/extractors.ts is the same function with maxLength fixed to          *)
(* MAX_CONTENT_LENGTH.  lastIndexOf counts from 0 and answers -1 for a     *)
(* text without a period, so LastPeriod is that index plus one.            *)
(***************************************************************************)
SliceOneMore(text, n) ==
    SubSeq(text, 1, IF n + 1 < Len(text) THEN n + 1 ELSE Len(text))

Slice(text, n) == SubSeq(text, 1, IF n < Len(text) THEN n ELSE Len(text))

LastPeriod(text) ==
    LET at == {i \in 1..Len(text) : text[i] = "."}
    IN  IF at = {} THEN 0 ELSE CHOOSE i \in at : \A j \in at : j <= i

truncateText(text, maxLength) ==
    IF Len(text) <= maxLength THEN text
    ELSE LET truncated == Slice(text, maxLength)
         IN  IF LastPeriod(truncated) - 1 > 0
             THEN Slice(truncated, LastPeriod(truncated))
             ELSE truncated

TruncateOnce ==
    /\ UNCHANGED mainVars
    /\ UNCHANGED <<dispatchVars, gateVars, shareVars, pageVars>>
    /\ tpc = "input"
    /\ tOut' = truncateText(tText, tMax)
    /\ tpc' = "once"
    /\ UNCHANGED <<tText, tMax, tAgain>>

TruncateAgain ==
    /\ UNCHANGED mainVars
    /\ UNCHANGED <<dispatchVars, gateVars, shareVars, pageVars>>
    /\ tpc = "once"
    /\ tAgain' = truncateText(tOut, tMax)
    /\ tpc' = "twice"
    /\ UNCHANGED <<tText, tMax, tOut>>

NextTrunc == TruncateOnce \/ TruncateAgain

InitTrunc ==
    /\ RateIdle
    /\ CrawlIdle
    /\ CacheIdle
    /\ world = [u \in CacheUrls |-> "ok"]
    /\ OrchRequestsIdle
    /\ ChartIdle
    /\ DispatchIdle
    /\ GateIdle
    /\ ShareIdle
    /\ PageInit
    /\ tText \in TextsUpTo(MaxText)
    /\ tMax \in 0..MaxText
    /\ tpc = "input"
    /\ tOut = <<>>
    /\ tAgain = <<>>

SpecTrunc == InitTrunc /\ [][NextTrunc]_vars

(***************************************************************************)
(* The chat page (part_005).  The Send button is disabled while isLoading  *)
(* or while the textarea is blank; the textarea's onKeyDown calls          *)
(* handleSend on Enter whatever isLoading is, and handleSend itself        *)
(* returns at once only for a blank message.  A call of handleSend keeps   *)
(* the updatedConv it built from the conversation it was rendered with.    *)
(***************************************************************************)
ButtonDisabled == pIsLoading \/ pMessage = 0

EnterBlocked == FALSE

pageFrame == <<dispatchVars, gateVars, shareVars, truncVars>>

TypeMessage ==
    /\ UNCHANGED mainVars
    /\ UNCHANGED pageFrame
    /\ pMessage = 0
    /\ pSent < MaxSends
    /\ pMessage' = pSent + 1
    /\ UNCHANGED <<pIsLoading, pConv, pInFlight, pSent, pAnswered>>

HandleSend ==
    /\ pMessage # 0
    /\ LET updatedConv == Append(pConv, UserMessage(pMessage))
       IN  /\ pConv' = updatedConv
           /\ pInFlight' = pInFlight \cup
                              {[msg |-> pMessage, updatedConv |-> updatedConv]}
    /\ pSent' = pMessage
    /\ pMessage' = 0
    /\ pIsLoading' = TRUE
    /\ UNCHANGED pAnswered

ClickSend ==
    /\ UNCHANGED mainVars
    /\ UNCHANGED pageFrame
    /\ ~ButtonDisabled
    /\ HandleSend

PressEnter ==
    /\ UNCHANGED mainVars
    /\ UNCHANGED pageFrame
    /\ ~EnterBlocked
    /\ HandleSend

ResponseOk(r) ==
    /\ UNCHANGED mainVars
    /\ UNCHANGED pageFrame
    /\ r \in pInFlight
    /\ pConv' = Append(r.updatedConv, AiMessage(r.msg))
    /\ pAnswered' = pAnswered \cup {r.msg}
    /\ pInFlight' = pInFlight \ {r}
    /\ pIsLoading' = FALSE
    /\ UNCHANGED <<pMessage, pSent>>

ResponseFails(r) ==
    /\ UNCHANGED mainVars
    /\ UNCHANGED pageFrame
    /\ r \in pInFlight
    /\ pConv' = SubSeq(pConv, 1, Len(pConv) - 1)
    /\ pInFlight' = pInFlight \ {r}
    /\ pIsLoading' = FALSE
    /\ UNCHANGED <<pMessage, pSent, pAnswered>>

NextPage ==
    \/ TypeMessage
    \/ ClickSend
    \/ PressEnter
    \/ \E r \in pInFlight : ResponseOk(r)
    \/ \E r \in pInFlight : ResponseFails(r)

InitPage ==
    /\ RateIdle
    /\ CrawlIdle
    /\ CacheIdle
    /\ world = [u \in CacheUrls |-> "ok"]
    /\ OrchRequestsIdle
    /\ ChartIdle
    /\ DispatchIdle
    /\ GateIdle
    /\ ShareIdle
    /\ TruncIdle
    /\ PageInit

SpecPage == InitPage /\ [][NextPage]_vars

(***************************************************************************)
(* C9: in extractContent with a store client, a cache hit (an unexpired    *)
(* value under content:<url>) returns the stored result with no extractor  *)
(* call and no store write; a miss calls the extractor once, stores the    *)
(* result under content:<url> with CACHE_TTL and returns that result.      *)
(***************************************************************************)
StoredResult(entry) ==
    IF entry.is = "jsonstring" THEN ContentResult(entry.content, entry.viz)
    ELSE IF IsValidJson(entry) THEN JsonParse(entry)
    ELSE ContentResult(entry.content, "none")

C9_HitOrMiss ==
    epc = "done" /\ redis /\ ~faulted =>
        IF readSaw # NoEntry
        THEN /\ extractorCalls = 0
             /\ cacheWrites = <<>>
             /\ returned = StoredResult(readSaw)
        ELSE /\ extractorCalls = 1
             /\ cacheWrites = <<<<Stringify(returned), CACHE_TTL>>>>

(***************************************************************************)
(* C10: cache round trip: what cacheContent(url, r) wrote is what          *)
(* getCachedContent(url) returns while the entry has not expired, and      *)
(* getCachedContent(url) returns null once it has (route.ts and            *)
(* lib/cache.ts).                                                          *)
(***************************************************************************)
C10_RoundTrip ==
    /\ epc \in {"extract", "write", "done"} /\ redis =>
          /\ readSaw.is = "jsonstring" =>
                cachedContent = ContentResult(readSaw.content, readSaw.viz)
          /\ readSaw = NoEntry => cachedContent = Null
    /\ \A u \in CacheUrls : storeUp =>
          /\ cache[u].is = "string" => LibGetCachedContent(u) = cache[u]
          /\ cache[u] = NoEntry => LibGetCachedContent(u) = Null

(***************************************************************************)
(* C11: a store error on the cache read is treated as a miss and a store   *)
(* error on the cache write is swallowed: the call still invokes the       *)
(* extractor once and returns the result it computed, never the error; the *)
(* lib/cache.ts read answers null when the store is down.                  *)
(***************************************************************************)
C11_StoreErrorsSwallowed ==
    /\ epc \in {"extract", "write", "done"} /\ readSaw = StoreError =>
          cachedContent = Null
    /\ epc = "done" /\ faulted =>
          /\ extractorCalls = 1
          /\ returned.is = "result"
          /\ result # Null => returned = result
    /\ ~storeUp => \A u \in CacheUrls : LibGetCachedContent(u) = Null

C11_Witness ==
    /\ epc = "done" /\ faulted /\ readSaw = StoreError
    /\ result # Null /\ returned = result /\ cacheWrites = <<>>
    /\ result.content = "text"

(***************************************************************************)
(* C12: extracting an unreachable URL yields a result whose content is a   *)
(* non-empty failure message that names the URL: for extractContent of     *)
(* route.ts, for each extractor, and for extractContent of extractors.ts   *)
(* (video included).                                                       *)
(***************************************************************************)
FailureMessageNaming(c) == c = "failed"

\* a url without a .pdf / .csv ending is an article, or a video when it
\* is a YouTube address
LibKinds(kind) ==
    IF kind \in {"pdf", "csv"} THEN {kind} ELSE {"article", "video"}

C12_UnreachableYieldsFailureMessage ==
    \A r \in Reqs, i \in Slots :
        /\ oPhase[r][i] \in {"write", "ready", "collected"}
        /\ world[oUrls[r][i]] = "unreachable"
        => /\ FailureMessageNaming(oRes[r][i].content)
           /\ FailureMessageNaming(Extractor(Kind(r, i), world[oUrls[r][i]]))
           /\ \A k \in LibKinds(Kind(r, i)) :
                 FailureMessageNaming(
                     LibExtractContent(k, world[oUrls[r][i]]).content)

(***************************************************************************)
(* The indices of a request's urls whose result has non-empty content, in  *)
(* request order.                                                          *)
(***************************************************************************)
NonEmptyIdx(r) ==
    LET F[k \in 0..Len(oUrls[r])] ==
            IF k = 0 THEN <<>>
            ELSE IF oRes[r][k].content # "" THEN Append(F[k - 1], k)
                 ELSE F[k - 1]
    IN  F[Len(oUrls[r])]

ChartIdx(r) ==
    SelectSeq(NonEmptyIdx(r), LAMBDA k : oRes[r][k].viz # "none")

(***************************************************************************)
(* C13: the orchestrator never aborts the batch: a request that entered    *)
(* the URL loop always leaves it, with every URL processed, also the ones  *)
(* after a URL whose extraction failed, and with the context, sources and  *)
(* visualizations of the URLs that gave content.                           *)
(***************************************************************************)
C13_BatchCompletes ==
    \A r \in Reqs :
        (oPc[r] = "loop") ~>
            /\ oPc[r] = "done"
            /\ \A i \in 1..Len(oUrls[r]) : oPhase[r][i] = "collected"
            /\ context[r] =
                  [j \in 1..Len(NonEmptyIdx(r)) |->
                      oRes[r][NonEmptyIdx(r)[j]].content]
            /\ visualizations[r] =
                  [j \in 1..Len(ChartIdx(r)) |-> oRes[r][ChartIdx(r)[j]].viz]
            /\ Len(validSources[r]) = Len(NonEmptyIdx(r))

C13_Witness ==
    /\ oPc[1] = "done"
    /\ Len(oUrls[1]) = 2
    /\ world[oUrls[1][1]] = "unreachable"
    /\ oRes[1][1].content = ""
    /\ world[oUrls[1][2]] = "ok"
    /\ validSources[1] = <<oUrls[1][2]>>

(***************************************************************************)
(* C14: the returned sources are exactly the submitted URLs whose result   *)
(* has non-empty content, in request order; a URL with empty content adds  *)
(* nothing to context, sources or visualizations.                          *)
(***************************************************************************)
C14_SourcesAreNonEmptyResults ==
    \A r \in Reqs :
        oPc[r] = "done" =>
            /\ validSources[r] =
                  [j \in 1..Len(NonEmptyIdx(r)) |-> oUrls[r][NonEmptyIdx(r)[j]]]
            /\ Len(context[r]) = Len(NonEmptyIdx(r))
            /\ Len(visualizations[r]) <= Len(NonEmptyIdx(r))
            /\ \A j \in 1..Len(context[r]) : context[r][j] # ""

C14_Witness ==
    /\ oPc[1] = "done"
    /\ Len(oUrls[1]) = 2
    /\ oRes[1][1].content # ""
    /\ oRes[1][2].content = ""
    /\ validSources[1] = <<oUrls[1][1]>>
    /\ oUrls[1][1] # oUrls[1][2]

(***************************************************************************)
(* C15: within one request a URL is taken through cache check, extraction  *)
(* and cache write to completion before the next URL's cache check, and a  *)
(* page fetch of a crawl completes before the next starts: at most one     *)
(* outbound fetch of the request is in flight.                             *)
(***************************************************************************)
StepRank(step) ==
    CASE step = "check" -> 1
      [] step = "fetch" -> 2
      [] OTHER -> 3

C15_OneUrlAtATime ==
    \A r \in Reqs :
        /\ inFlight[r] <= 1
        /\ Cardinality({i \in Slots :
                           oPhase[r][i] \notin {"new", "collected"}}) <= 1
        /\ \A k \in 1..(Len(oLog[r]) - 1) :
              \/ oLog[r][k][1] < oLog[r][k + 1][1]
                    /\ oLog[r][k + 1][2] = "check"
              \/ oLog[r][k][1] = oLog[r][k + 1][1]
                    /\ StepRank(oLog[r][k][2]) <= StepRank(oLog[r][k + 1][2])
                    /\ oLog[r][k + 1][2] # "check"
        /\ \A i \in Slots :
              oPhase[r][i] \notin {"new", "collected"} =>
                 \A j \in 1..(i - 1) : oPhase[r][j] = "collected"

C15_Witness ==
    /\ Len(oUrls[1]) = 2
    /\ oPhase[1][1] = "collected"
    /\ oPhase[1][2] = "fetching"
    /\ oFetches[1] = 1
    /\ inFlight[1] = 1
    /\ Len(oLog[1]) >= 5

(***************************************************************************)
(* C16: when requests handled concurrently ask for the same URL, at most   *)
(* one extraction for that cache key is in flight at any time.             *)
(***************************************************************************)
Extracting(u) ==
    {ri \in Reqs \X Slots :
        /\ ri[2] <= Len(oUrls[ri[1]])
        /\ oUrls[ri[1]][ri[2]] = u
        /\ oPhase[ri[1]][ri[2]] \in {"fetch", "fetching", "write"}}

C16_OneExtractionPerKey ==
    \A u \in OrchUrls : Cardinality(Extracting(u)) <= 1

(***************************************************************************)
(* C17: every chart specification the pipeline emits, from the chart       *)
(* detector or from the CSV extractor, has at least 2 rows, rows with the  *)
(* same key set, and at least one numeric column.                          *)
(***************************************************************************)
C17_ChartWellFormed ==
    /\ dpc = "detected"
    /\ dImpl \in {"route.ts", "extractors.ts", "extractCSV"}
    /\ dChart # NoChart
    => /\ Len(dChart.rows) >= 2
       /\ \A j \in 1..Len(dChart.rows) :
             Len(dChart.rows[j]) = Len(dChart.rows[1])
       /\ \E c \in 1..Len(dChart.rows[1]) :
             \A j \in 1..Len(dChart.rows) : IsNum(dChart.rows[j][c])

(***************************************************************************)
(* C18: every version of detectChartableData returns none for an input of  *)
(* fewer than 3 non-blank lines.                                           *)
(***************************************************************************)
C18_FewLinesNoChart ==
    /\ dpc = "detected"
    /\ dImpl \in Detectors
    /\ Len(NonBlank(dLines)) < 3
    => dChart = NoChart

(***************************************************************************)
(* C19: a chart specification produced by detectChartableData of route.ts  *)
(* or by extractCSV has kind line if and only if it has more than 10 rows, *)
(* and kind bar otherwise.                                                 *)
(***************************************************************************)
C19_LineIffMoreThanTenRows ==
    /\ dpc = "detected"
    /\ dImpl \in {"route.ts", "extractCSV"}
    /\ dChart # NoChart
    => /\ dChart.kind = "line" <=> Len(dChart.rows) > 10
       /\ dChart.kind = "bar" <=> Len(dChart.rows) <= 10

(***************************************************************************)
(* C20: end to end, a .csv URL whose body is a header and 3 numeric data   *)
(* rows gives content stating the record count 3 and a visualization of    *)
(* kind bar with exactly 3 rows.                                           *)
(***************************************************************************)
C20_CsvEndToEnd ==
    /\ dpc = "detected"
    /\ dImpl \in Pipelines
    /\ dLines = <<<<"s", "s">>, <<"n", "n">>, <<"n", "n">>, <<"n", "n">>>>
    => /\ dCount = 3
       /\ dChart.kind = "bar"
       /\ Len(dChart.rows) = 3

(***************************************************************************)
(* C21: a URL on a video-platform host goes to the video extractor even if *)
(* it ends in .pdf or .csv; any other URL goes to the PDF extractor if it  *)
(* ends in .pdf, to the CSV extractor if it ends in .csv, and to the       *)
(* article extractor otherwise; exactly one extractor is invoked.          *)
(***************************************************************************)
C21_DispatchRule ==
    xpc \in {"dispatched", "done"} /\ xCalled # <<>> =>
        /\ Len(xCalled) = 1
        /\ xCalled[1] = IF xUrl.host = "video" THEN "video"
                        ELSE ByFileType(xUrl)

(***************************************************************************)
(* C22: without YOUTUBE_API_KEY the video extractor fetches the page and   *)
(* reads its meta tags; it does not return a failure result because the    *)
(* key is absent.                                                          *)
(***************************************************************************)
C22_NoKeyScrapes ==
    /\ xpc = "done"
    /\ xImpl \in {"extractors.ts", "part_004"}
    /\ xCalled = <<"video">>
    /\ ~xKey /\ xUrl.vid /\ xPage = "ok"
    => /\ xFetched = <<"page">>
       /\ xResult = "scraped"

(***************************************************************************)
(* C23: a request that the rate limiter answers with 429 performs no       *)
(* extraction work: no cache access, no fetch and no LLM call is made for  *)
(* it.                                                                     *)
(***************************************************************************)
C23_RejectedDoesNoWork ==
    \A p \in Procs : response[p] = "429" => hWork[p] = <<>>

C23_Witness ==
    \E p, q \in Procs :
        /\ response[p] = "429" /\ pc[p] = "done" /\ hWork[p] = <<>>
        /\ response[q] = "next" /\ hWork[q] = <<"cache", "fetch", "llm">>

(***************************************************************************)
(* C24: a conversation created by POST /api/share is returned by GET with  *)
(* its id for 24 hours after the POST; after that period the GET answers   *)
(* 404.                                                                    *)
(***************************************************************************)
C24_SharedForOneDay ==
    shResp.status # 0 /\ shResp.age >= 0 =>
        IF shResp.age < 60 * 60 * 24
        THEN shResp.status = 200 /\ shResp.body = shResp.posted
        ELSE shResp.status = 404

(***************************************************************************)
(* C25: the window is fixed: only a request that read the count 0 sets the *)
(* expiry, and while the record has an expiry no request moves it to a     *)
(* later time, under any interleaving of requests.                         *)
(***************************************************************************)
C25_WindowFixed ==
    /\ [](\A p \in Procs : pc[p] = "expire" => currentCount[p] = 0)
    /\ [][\A c \in Ips : ttl[c] # NoTtl => ttl'[c] <= ttl[c]]_vars

(***************************************************************************)
(* C26: a counter that exists with a count of at least 1 has an expiry     *)
(* (once no request of that client stands between its increment and its    *)
(* expire call), so that a denied client is admitted again later; also     *)
(* when a single store call fails.                                         *)
(***************************************************************************)
C26_CounterHasExpiry ==
    \A c \in Ips :
        /\ count[c] >= 1
        /\ \A p \in Procs : ip[p] = c => pc[p] # "expire"
        => ttl[c] # NoTtl

(***************************************************************************)
(* C27: a request that finds its counter at or above RATE_LIMIT_REQUESTS   *)
(* is answered 429 with Retry-After equal to the window length, 3600, and  *)
(* changes neither the counter nor its expiry.                             *)
(***************************************************************************)
C27_DeniedLeavesRecord ==
    [][\A p \in Procs :
          /\ pc[p] = "get" /\ pc'[p] # "get"
          /\ count[RatelimitKey(ip[p])] >= RATE_LIMIT_REQUESTS
          => /\ pc'[p] = "done"
             /\ response'[p] = "429"
             /\ ResponseHeaders(response'[p], currentCount'[p]).RetryAfter
                    = 3600
             /\ count' = count
             /\ ttl' = ttl]_vars

C27_Witness ==
    \E p \in Procs :
        /\ pc[p] = "done" /\ response[p] = "429"
        /\ count[ip[p]] = RATE_LIMIT_REQUESTS
        /\ ttl[ip[p]] = RATE_LIMIT_WINDOW \div 2

(***************************************************************************)
(* C28: a request of one client changes neither the counter nor the expiry *)
(* of another client, its own admission depends on its own counter only,   *)
(* and a request to a path other than /api/chat changes no counter and no  *)
(* expiry.                                                                 *)
(***************************************************************************)
C28_PerClientIsolation ==
    [][\A p \in Procs :
          pc'[p] # pc[p] =>
             /\ \A c \in Ips \ {ip'[p]} : count'[c] = count[c]
                                          /\ ttl'[c] = ttl[c]
             /\ path'[p] # "chat" => count' = count /\ ttl' = ttl
             /\ pc[p] = "get" =>
                   (response'[p] = "429" <=> Denied(count[ip[p]]))]_vars

C28_Witness ==
    \E p, q \in Procs :
        /\ ip[p] = 1 /\ ip[q] = 2 /\ pc[p] = "done" /\ pc[q] = "done"
        /\ path[p] = "chat" /\ path[q] = "chat"
        /\ response[p] = "429" /\ response[q] = "next"
        /\ count[1] # count[2]

(***************************************************************************)
(* C29: a page whose fetch fails or answers with a non-2xx response is     *)
(* dropped: it is not among the results, it was fetched once only, and     *)
(* the step that drops it leaves the crawl with its remaining work.        *)
(***************************************************************************)
C29_FailedPageDropped ==
    /\ [](\A u \in failedUrls :
             /\ \A i \in 1..Len(results) : results[i].url # u
             /\ Cardinality({i \in 1..Len(fetchLog) : fetchLog[i].url = u})
                   = 1)
    /\ [][failedUrls' # failedUrls =>
             /\ cpc' \in {"loop", "next"}
             /\ queue' = queue
             /\ callStack' = callStack]_vars

(***************************************************************************)
(* C30: a crawl that returns fewer than maxPages results has visited every *)
(* link it kept from every successfully fetched page of depth below        *)
(* maxDepth: failed fetches do not use up the page budget.                 *)
(***************************************************************************)
C30_StopsOnlyWhenDone ==
    cpc = "done" /\ Len(results) < config.maxPages =>
        \A i \in 1..Len(results) :
            results[i].url \notin failedUrls
            /\ results[i].depth < config.maxDepth =>
                \A j \in 1..Len(PageLinks(config, results[i].url)) :
                    PageLinks(config, results[i].url)[j] \in visited

(***************************************************************************)
(* C31: WebCrawler queues links only from a page of depth below MAX_DEPTH, *)
(* at the page's depth plus one, and never a URL that is in the visited    *)
(* set; a page at depth MAX_DEPTH adds nothing to the queue.               *)
(***************************************************************************)
C31_ExpandBelowMaxDepth ==
    /\ [](crawler = "WebCrawler" =>
             \A i \in 1..Len(queue) : queue[i].depth <= MAX_DEPTH)
    /\ [][crawler = "WebCrawler" /\ cpc = "fetching" /\ results' # results =>
             /\ Len(queue') >= Len(queue)
             /\ SubSeq(queue', 1, Len(queue)) = queue
             /\ current.depth >= MAX_DEPTH => queue' = queue
             /\ \A i \in (Len(queue) + 1)..Len(queue') :
                   /\ current.depth < MAX_DEPTH
                   /\ queue'[i].depth = current.depth + 1
                   /\ queue'[i].url \notin visited
                   /\ \E j \in 1..Len(SiteLinks(site, current.url)) :
                         SiteLinks(site, current.url)[j] = queue'[i].url]_vars

C31_Witness ==
    /\ crawler = "WebCrawler" /\ cpc = "loop" /\ Back(site) /\ Fan(site) > 1
    /\ Len(results) > 1
    /\ results[Len(results)].depth = MAX_DEPTH
    /\ \E i \in 1..Len(queue) : queue[i].depth = MAX_DEPTH

(***************************************************************************)
(* C32: crawlHierarchically, the crawler of the article extractor,         *)
(* requests pages breadth-first: every page of depth d it fetches is       *)
(* fetched before any page of depth d + 1.                                 *)
(***************************************************************************)
C32_HierarchicalBreadthFirst ==
    crawler = "crawlHierarchically" =>
        \A i, j \in 1..Len(fetchLog) :
            i < j => fetchLog[i].depth <= fetchLog[j].depth

(***************************************************************************)
(* C33: in the crawl of an article extraction every page fetched other     *)
(* than the seed is on the seed's hostname and does not match the pattern  *)
(* of binary-asset endings; a link that fails either test is neither       *)
(* followed nor listed among the links of the page's result.               *)
(***************************************************************************)
C33_ArticleCrawlFiltered ==
    crawler = "crawlHierarchically" /\ config.filters = "article" =>
        /\ \A i \in 2..Len(fetchLog) :
              /\ UrlHost(fetchLog[i].url) = UrlHost(Seed)
              /\ ~MatchesExclude(fetchLog[i].url)
        /\ \A n \in 1..Len(callStack) :
              \A j \in 1..Len(callStack[n].todo) :
                 /\ UrlHost(callStack[n].todo[j]) = UrlHost(Seed)
                 /\ ~MatchesExclude(callStack[n].todo[j])

C33_Witness ==
    /\ crawler = "crawlHierarchically" /\ config.filters = "article"
    /\ cpc = "done" /\ Len(fetchLog) > 2
    /\ \E i \in 1..Len(results) :
          LET links == SiteLinks(site, results[i].url)
          IN  /\ \E j \in 1..Len(links) : ~AllowedDomain(links[j])
              /\ \E j \in 1..Len(links) : MatchesExclude(links[j])
              /\ \E j \in 1..Len(links) :
                    \E k \in 2..Len(fetchLog) : fetchLog[k].url = links[j]

(***************************************************************************)
(* C34: extractContent writes a cache entry only for a successful          *)
(* extraction: when the extractor hands back its failure placeholder (or   *)
(* throws) nothing is written under content:<url>, and no later call is    *)
(* served the failure from the cache.                                      *)
(***************************************************************************)
C34_OnlySuccessCached ==
    /\ \A i \in 1..Len(cacheWrites) : cacheWrites[i][1].content # "failed"
    /\ epc = "done" /\ readSaw # NoEntry /\ readSaw # StoreError =>
          returned.content # "failed"

(***************************************************************************)
(* C35: getCachedContent of route.ts reports an unexpired entry written by *)
(* cacheContent as a hit, whether the store client hands it back as the    *)
(* JSON string or as the object parsed from it.                            *)
(***************************************************************************)
C35_BothFormatsHit ==
    epc \in {"extract", "write", "done"} /\ redis /\ readSaw.is = "jsonstring"
        => /\ cachedContent # Null
           /\ cachedContent.content = readSaw.content

(***************************************************************************)
(* C36: detectChartableData (route.ts, extractors.ts) keeps exactly the    *)
(* data lines that have the header's number of cells and at least one cell *)
(* that is a number, in input order, and returns a chart only if it kept   *)
(* at least 2 rows.                                                        *)
(***************************************************************************)
C36_KeepsNumericRowsOnly ==
    /\ dpc = "detected"
    /\ dImpl \in {"route.ts", "extractors.ts"}
    /\ dChart # NoChart
    => /\ dChart.rows =
            SelectSeq(SelectSeq(Tail(NonBlank(dLines)),
                                LAMBDA row :
                                    Len(row) = Len(NonBlank(dLines)[1])),
                      LAMBDA row : \E c \in 1..Len(row) : row[c] = "n")
       /\ Len(dChart.rows) >= 2

(***************************************************************************)
(* C37: truncateText(text, max) is a prefix of text of length at most max, *)
(* is text itself when text is no longer than max, and truncating its      *)
(* result again with the same max changes nothing; so the content that     *)
(* extractContent computes with it is no longer than the maximum.          *)
(***************************************************************************)
C37_TruncateBounded ==
    /\ tpc \in {"once", "twice"} =>
          /\ Len(tOut) <= tMax
          /\ Len(tOut) <= Len(tText)
          /\ tOut = SubSeq(tText, 1, Len(tOut))
          /\ Len(tText) <= tMax => tOut = tText
    /\ tpc = "twice" => tAgain = tOut

C37_Witness ==
    /\ tpc = "twice"
    /\ Len(tText) > tMax
    /\ 0 < Len(tOut) /\ Len(tOut) < tMax
    /\ tOut[Len(tOut)] = "."
    /\ tAgain = tOut

(***************************************************************************)
(* C38: in the chat page at most one /api/chat request is in flight:       *)
(* handleSend is not started while isLoading is true, neither by the Send  *)
(* button nor by Enter; every user message that was answered is followed   *)
(* at once in the conversation by its own AI reply.                        *)
(***************************************************************************)
C38_OneRequestInFlight ==
    /\ Cardinality(pInFlight) <= 1
    /\ pInFlight = {} =>
          \A m \in pAnswered :
              \E i \in 1..(Len(pConv) - 1) :
                  pConv[i] = UserMessage(m) /\ pConv[i + 1] = AiMessage(m)

=============================================================================
